---------------------------- MODULE Spec2Model ----------------------------
(***************************************************************************)
(* A model of the NHL scraper: the upsert persistence layer                *)
(* (src/src/storage/database.py) and the scraper sessions the command-line *)
(* driver opens (src/src/cli.py, src/src/scrapers).                        *)
(*                                                                         *)
(* Python values are written as strings: "1" is the integer 1, "0" the     *)
(* integer 0, "" the empty string, "True"/"False" the booleans, and None   *)
(* is the value None below.  A dict is a function whose DOMAIN is the set  *)
(* of keys it holds; a key that is absent is not in the DOMAIN.            *)
(***************************************************************************)
EXTENDS Integers, Sequences, FiniteSets, TLC

VARIABLES
    store,      \* the committed tables: kind -> set of rows
    prev,       \* the committed tables when the call in progress began
    call,       \* the call of the Database API that has just returned or
                \* raised, with its arguments and result; Idle between calls
    clock,      \* datetime.utcnow(), a logical clock
    loop_time,  \* the event loop's time, in ticks
    last_request, \* scraper instance -> the time of its last paced request
    traffic,    \* scraper instance -> what it has sent to its upstream
    driver,     \* the command the CLI runs and where it is in it
    client,     \* scraper class -> the HTTP client of the command's scraper
    sweep,      \* a scraper call over teams: its requests and its result
    csv,        \* a MoneyPuck call: the file it is given and its result
    cal         \* the date of the day and the season ids derived from it

dbvars == <<store, prev, call, clock>>

clientvars == <<loop_time, last_request, traffic>>

drivervars == <<driver, client>>

extractvars == <<sweep, csv, cal>>

vars == <<store, prev, call, clock, loop_time, last_request, traffic,
          driver, client, sweep, csv, cal>>

-----------------------------------------------------------------------------
(* Bounds *)

\* longest list of records one upsert call is given
MaxBatch == 2

\* number of upsert calls of one run (the value the clock reaches)
MaxClock == 2

-----------------------------------------------------------------------------
(* Python values *)

None == "<None>"

\* a value json.dumps cannot serialise (it raises TypeError)
Unserializable == "<object>"

\* bool(v)
Truthy(v) == v \notin {None, "0", "", "False"}

\* d.get(k, dflt)
Get(d, k, dflt) == IF k \in DOMAIN d THEN d[k] ELSE dflt

\* str(v)
Str(v) == IF v = None THEN "None" ELSE v

\* the keys of the dicts of the model, in the order json.dumps writes them
FieldOrder ==
    << "id", "abbreviation", "player_id", "player_name", "first_name",
       "last_name", "name", "team", "team_abbrev", "season", "situation",
       "division", "home_score", "game_state", "date", "games_played",
       "corsi_pct", "current_cap_hit", "jersey_number",
       "position", "toi_seconds", "corsi_for", "corsi_against", "corsi_rel",
       "fenwick_for", "fenwick_against", "fenwick_pct", "xg_for",
       "xg_against", "xg_pct", "individual_xg", "goals_above_expected",
       "scoring_chances_for", "scoring_chances_against",
       "high_danger_chances_for", "high_danger_chances_against",
       "high_danger_goals_for", "high_danger_goals_against",
       "offensive_zone_starts", "defensive_zone_starts",
       "neutral_zone_starts", "offensive_zone_start_pct", "shots", "goals",
       "primary_assists", "secondary_assists", "individual_corsi_for",
       "on_ice_sh_pct", "on_ice_sv_pct", "pdo", "shots_against",
       "goals_against", "saves", "save_pct", "goals_saved_above_expected",
       "low_danger_shots", "low_danger_goals", "low_danger_save_pct",
       "medium_danger_shots", "medium_danger_goals",
       "medium_danger_save_pct", "high_danger_shots", "high_danger_goals",
       "high_danger_save_pct", "rebounds_given", "rebound_goals_against",
       "freeze_pct", "source" >>

\* json.dumps(d) can be computed: every value is serialisable
Serializable(d) == \A k \in DOMAIN d : d[k] # Unserializable

\* json.dumps(d): the text, as the sequence of its key/value pairs
JsonDumps(d) ==
    LET keys == SelectSeq(FieldOrder, LAMBDA k : k \in DOMAIN d)
    IN  [i \in 1..Len(keys) |-> <<keys[i], d[keys[i]]>>]

\* the row built from a record: column c takes rec.get(map[c])
Columns(map, rec) == [c \in DOMAIN map |-> Get(rec, map[c], None)]

\* the row after an update: column c takes rec.get(map[c], row.c)
Assign(row, map, rec) ==
    [c \in DOMAIN row |->
        IF c \in DOMAIN map THEN Get(rec, map[c], row[c]) ELSE row[c]]

\* the next value of an autoincrement primary key
NextId(tbl) ==
    IF tbl = {} THEN 1
    ELSE 1 + (CHOOSE m \in {r.id : r \in tbl} : \A r \in tbl : r.id <= m)

\* Query.first(): the matching row with the least rowid; the result is the
\* set holding it, and the empty set stands for None
First(rows) ==
    IF rows = {} THEN {}
    ELSE {CHOOSE r \in rows : \A q \in rows : r.id <= q.id}

-----------------------------------------------------------------------------
(* players *)

PlayerInsertMap ==
    [ first_name |-> "first_name", last_name |-> "last_name",
      position |-> "position", team_abbrev |-> "team",
      birth_date |-> "birth_date", birth_country |-> "birth_country",
      draft_year |-> "draft_year", draft_round |-> "draft_round",
      draft_pick |-> "draft_pick" ]

PlayerUpdateMap ==
    [ first_name |-> "first_name", last_name |-> "last_name",
      position |-> "position", team_abbrev |-> "team" ]

\* session.get(PlayerRecord, player_id); the empty set stands for None
PlayerGet(tbl, p) ==
    {r \in tbl : r.id = p.id}

PlayerNew(tbl, p, now) ==
    [id |-> p.id, raw_data |-> JsonDumps(p), updated_at |-> now]
        @@ Columns(PlayerInsertMap, p)

PlayerUpdated(row, p, now) ==
    [Assign(row, PlayerUpdateMap, p)
        EXCEPT !.raw_data = JsonDumps(p), !.updated_at = now]

-----------------------------------------------------------------------------
(* teams *)

TeamInsertMap ==
    [ name |-> "name", conference |-> "conference", division |-> "division" ]

TeamUpdateMap ==
    [ name |-> "name", conference |-> "conference", division |-> "division" ]

\* session.get(TeamRecord, abbrev)
TeamGet(tbl, t) ==
    {r \in tbl : r.abbrev = t.abbreviation}

TeamNew(tbl, t, now) ==
    [abbrev |-> t.abbreviation, raw_data |-> JsonDumps(t), updated_at |-> now]
        @@ Columns(TeamInsertMap, t)

\* an update that leaves the stored payload as it was
TeamUpdatedKeepRaw(row, t, now) ==
    [Assign(row, TeamUpdateMap, t) EXCEPT !.updated_at = now]

TeamUpdated(row, t, now) ==
    [Assign(row, TeamUpdateMap, t)
        EXCEPT !.raw_data = JsonDumps(t), !.updated_at = now]

-----------------------------------------------------------------------------
(* games *)

GameInsertMap ==
    [ season |-> "season", game_date |-> "date", home_team |-> "home_team",
      away_team |-> "away_team", home_score |-> "home_score",
      away_score |-> "away_score", game_state |-> "game_state" ]

\* an update branch that refreshes every column the insert branch sets
GameUpdateAll ==
    [ season |-> "season", game_date |-> "date", home_team |-> "home_team",
      away_team |-> "away_team", home_score |-> "home_score",
      away_score |-> "away_score", game_state |-> "game_state" ]

GameUpdateMap ==
    [ home_score |-> "home_score", away_score |-> "away_score",
      game_state |-> "game_state" ]

\* session.get(GameRecord, game_id)
GameGet(tbl, g) ==
    {r \in tbl : r.id = g.id}

GameNew(tbl, g, now) ==
    [id |-> g.id, game_type |-> Str(Get(g, "game_type", None)),
     raw_data |-> JsonDumps(g), updated_at |-> now]
        @@ Columns(GameInsertMap, g)

GameUpdated(row, g, now) ==
    [Assign(row, GameUpdateMap, g)
        EXCEPT !.raw_data = JsonDumps(g), !.updated_at = now]

-----------------------------------------------------------------------------
(* contracts *)

ContractInsertMap ==
    [ player_id |-> "player_id", season |-> "season",
      contract_type |-> "contract_type", start_season |-> "start_season",
      end_season |-> "end_season", total_years |-> "total_years",
      total_value |-> "total_value", aav |-> "aav",
      current_cap_hit |-> "current_cap_hit",
      current_salary |-> "current_salary",
      expiry_status |-> "expiry_status", source |-> "source" ]

ContractUpdateMap ==
    [ current_cap_hit |-> "current_cap_hit",
      current_salary |-> "current_salary", aav |-> "aav",
      total_years |-> "total_years", expiry_status |-> "expiry_status",
      has_nmc |-> "has_nmc", has_ntc |-> "has_ntc" ]

\* a lookup that sees only committed rows (a session that does not autoflush)
ContractFindCommitted(tbl, c) ==
    First({r \in store.contracts :
              /\ r.player_name = Get(c, "player_name", None)
              /\ r.team_abbrev = Get(c, "team_abbrev", None)})

\* session.query(ContractRecord).filter_by(player_name=, team_abbrev=).first()
ContractFind(tbl, c) ==
    First({r \in tbl : /\ r.player_name = Get(c, "player_name", None)
                       /\ r.team_abbrev = Get(c, "team_abbrev", None)})

ContractNew(tbl, c, now) ==
    [id |-> NextId(tbl), player_name |-> Get(c, "player_name", None),
     team_abbrev |-> Get(c, "team_abbrev", None),
     has_nmc |-> Get(c, "has_nmc", "False"),
     has_ntc |-> Get(c, "has_ntc", "False"),
     raw_data |-> JsonDumps(c), updated_at |-> now]
        @@ Columns(ContractInsertMap, c)

ContractUpdated(row, c, now) ==
    [Assign(row, ContractUpdateMap, c)
        EXCEPT !.raw_data = JsonDumps(c), !.updated_at = now]

-----------------------------------------------------------------------------
(* advanced_stats *)

AdvancedInsertMap ==
    [ player_name |-> "player_name", team_abbrev |-> "team_abbrev",
      position |-> "position", games_played |-> "games_played",
      toi_seconds |-> "toi_seconds", corsi_for |-> "corsi_for",
      corsi_against |-> "corsi_against", corsi_pct |-> "corsi_pct",
      corsi_rel |-> "corsi_rel", fenwick_for |-> "fenwick_for",
      fenwick_against |-> "fenwick_against", fenwick_pct |-> "fenwick_pct",
      xg_for |-> "xg_for", xg_against |-> "xg_against", xg_pct |-> "xg_pct",
      goals_above_expected |-> "goals_above_expected",
      oz_start_pct |-> "offensive_zone_start_pct",
      hd_chances_for |-> "high_danger_chances_for",
      hd_chances_against |-> "high_danger_chances_against",
      source |-> "source" ]

AdvancedUpdateMap ==
    [ player_name |-> "player_name", team_abbrev |-> "team_abbrev",
      position |-> "position", games_played |-> "games_played",
      toi_seconds |-> "toi_seconds", corsi_for |-> "corsi_for",
      corsi_against |-> "corsi_against", corsi_pct |-> "corsi_pct",
      corsi_rel |-> "corsi_rel", fenwick_for |-> "fenwick_for",
      fenwick_against |-> "fenwick_against", fenwick_pct |-> "fenwick_pct",
      xg_for |-> "xg_for", xg_against |-> "xg_against", xg_pct |-> "xg_pct",
      goals_above_expected |-> "goals_above_expected",
      oz_start_pct |-> "offensive_zone_start_pct",
      hd_chances_for |-> "high_danger_chances_for",
      hd_chances_against |-> "high_danger_chances_against" ]

\* a lookup that takes the situation without its default
AdvancedFindNoDefault(tbl, s) ==
    First({r \in tbl : /\ r.player_id = Get(s, "player_id", None)
                       /\ r.season = Get(s, "season", None)
                       /\ r.situation = Get(s, "situation", None)})

\* session.query(AdvancedStatsRecord)
\*     .filter_by(player_id=, season=, situation=).first()
AdvancedFind(tbl, s) ==
    First({r \in tbl : /\ r.player_id = Get(s, "player_id", None)
                       /\ r.season = Get(s, "season", None)
                       /\ r.situation = Get(s, "situation", "all")})

AdvancedNew(tbl, s, now) ==
    [id |-> NextId(tbl), player_id |-> Get(s, "player_id", None),
     season |-> Get(s, "season", None),
     situation |-> Get(s, "situation", "all"),
     raw_data |-> JsonDumps(s), updated_at |-> now]
        @@ Columns(AdvancedInsertMap, s)

AdvancedUpdated(row, s, now) ==
    [Assign(row, AdvancedUpdateMap, s)
        EXCEPT !.raw_data = JsonDumps(s), !.updated_at = now]

-----------------------------------------------------------------------------
(* rosters *)

RosterUpdateMap ==
    [ jersey_number |-> "jersey_number", position |-> "position",
      roster_status |-> "roster_status" ]

\* f"{first} {last}".strip()
Strip(first, last) ==
    IF first = "" THEN last
    ELSE IF last = "" THEN first
    ELSE first \o " " \o last

PlayerName(p) == Strip(Get(p, "first_name", ""), Get(p, "last_name", ""))

\* the players of the rosters in the order the two loops visit them, each with
\* the team and season of its roster
RECURSIVE AllPlayers(_)
AllPlayers(rosters) ==
    IF rosters = << >> THEN << >>
    ELSE LET roster == Head(rosters)
             all == Get(roster, "forwards", << >>)
                        \o Get(roster, "defensemen", << >>)
                        \o Get(roster, "goalies", << >>)
         IN  [i \in 1..Len(all) |->
                 [team_abbrev |-> Get(roster, "team_abbrev", None),
                  season |-> Get(roster, "season", None),
                  p |-> all[i]]]
             \o AllPlayers(Tail(rosters))

\* session.query(RosterRecord)
\*     .filter_by(player_id=, team_abbrev=, season=).first()
RosterFind(tbl, e) ==
    First({r \in tbl : /\ r.player_id = Get(e.p, "player_id", None)
                       /\ r.team_abbrev = e.team_abbrev
                       /\ r.season = e.season})

RosterNew(tbl, e, now) ==
    [id |-> NextId(tbl), team_abbrev |-> e.team_abbrev,
     player_id |-> Get(e.p, "player_id", None),
     player_name |-> PlayerName(e.p), season |-> e.season,
     jersey_number |-> Get(e.p, "jersey_number", None),
     position |-> Get(e.p, "position", None),
     roster_status |-> Get(e.p, "roster_status", "active"),
     raw_data |-> JsonDumps(e.p), updated_at |-> now]

RosterUpdated(row, e, now) ==
    [Assign(row, RosterUpdateMap, e.p)
        EXCEPT !.player_name = PlayerName(e.p),
               !.raw_data = JsonDumps(e.p), !.updated_at = now]

-----------------------------------------------------------------------------
(* One upsert call: the loop over the records inside one session *)

Kinds ==
    {"players", "teams", "games", "contracts", "advanced_stats", "rosters"}

\* the records the loop of upsert_<kind> visits
Records(kind, batch) ==
    IF kind = "rosters" THEN AllPlayers(batch) ELSE batch

\* the dict that is stored as the row's raw_data
Payload(kind, r) == IF kind = "rosters" THEN r.p ELSE r

\* the `if not <id>: continue` of each loop
Skip(kind, r) ==
    CASE kind = "players" -> ~Truthy(Get(r, "id", None))
      [] kind = "teams" -> ~Truthy(Get(r, "abbreviation", None))
      [] kind = "games" -> ~Truthy(Get(r, "id", None))
      [] kind = "contracts" -> ~Truthy(Get(r, "player_name", None))
      [] kind = "advanced_stats" -> ~Truthy(Get(r, "player_id", None))
      [] kind = "rosters" -> ~Truthy(Get(r.p, "player_id", None))

\* the lookup of the existing row
Find(kind, tbl, r) ==
    CASE kind = "players" -> PlayerGet(tbl, r)
      [] kind = "teams" -> TeamGet(tbl, r)
      [] kind = "games" -> GameGet(tbl, r)
      [] kind = "contracts" -> ContractFind(tbl, r)
      [] kind = "advanced_stats" -> AdvancedFind(tbl, r)
      [] kind = "rosters" -> RosterFind(tbl, r)

\* the `if existing:` branch
Updated(kind, row, r, now) ==
    CASE kind = "players" -> PlayerUpdated(row, r, now)
      [] kind = "teams" -> TeamUpdated(row, r, now)
      [] kind = "games" -> GameUpdated(row, r, now)
      [] kind = "contracts" -> ContractUpdated(row, r, now)
      [] kind = "advanced_stats" -> AdvancedUpdated(row, r, now)
      [] kind = "rosters" -> RosterUpdated(row, r, now)

\* the `else: session.add(...)` branch
New(kind, tbl, r, now) ==
    CASE kind = "players" -> PlayerNew(tbl, r, now)
      [] kind = "teams" -> TeamNew(tbl, r, now)
      [] kind = "games" -> GameNew(tbl, r, now)
      [] kind = "contracts" -> ContractNew(tbl, r, now)
      [] kind = "advanced_stats" -> AdvancedNew(tbl, r, now)
      [] kind = "rosters" -> RosterNew(tbl, r, now)

\* the primary key column of a table
PrimaryKey(kind, row) == IF kind = "teams" THEN row.abbrev ELSE row.id

\* The loop body, record by record, on the session's view of the table (the
\* session autoflushes before each lookup, so a row added earlier in the same
\* batch is found).  The result is the session's view when the loop ends, the
\* count, and "error" when a record raised: json.dumps on a value it cannot
\* serialise, or the flush of a row whose primary key is already stored.
RECURSIVE Process(_, _, _, _, _)
Process(kind, recs, tbl, count, now) ==
    IF recs = << >>
    THEN [status |-> "ok", rows |-> tbl, count |-> count]
    ELSE LET r == Head(recs)
             existing == Find(kind, tbl, r)
         IN  IF Skip(kind, r)
             THEN Process(kind, Tail(recs), tbl, count, now)
             ELSE IF ~Serializable(Payload(kind, r))
             THEN [status |-> "error", rows |-> tbl, count |-> count]
             ELSE IF existing # {}
             THEN LET row == CHOOSE x \in existing : TRUE
                  IN  Process(kind, Tail(recs),
                              (tbl \ {row}) \cup {Updated(kind, row, r, now)},
                              count + 1, now)
             ELSE LET new == New(kind, tbl, r, now)
                  IN  IF \E x \in tbl :
                             PrimaryKey(kind, x) = PrimaryKey(kind, new)
                      THEN [status |-> "error", rows |-> tbl, count |-> count]
                      ELSE Process(kind, Tail(recs), tbl \cup {new},
                                   count + 1, now)

\* a commit that keeps only the rows the call wrote
CommitRefreshed(kind, out) ==
    IF out.status = "ok"
    THEN [store EXCEPT ![kind] = {x \in out.rows : x.updated_at > clock}]
    ELSE store

\* a commit that refreshes updated_at on every row of the table
CommitStamped(kind, out) ==
    IF out.status = "ok"
    THEN [store EXCEPT
            ![kind] = {[x EXCEPT !.updated_at = clock + 1] : x \in out.rows}]
    ELSE store

\* an end of the block that commits whatever the session holds
CommitAlways(kind, out) == [store EXCEPT ![kind] = out.rows]

\* The end of the `with self.get_session() as session:` block: session.commit()
\* makes the session's view the table when the loop ended; an exception leaves
\* the block before the commit and closing the session rolls its rows back.
Commit(kind, out) ==
    IF out.status = "ok" THEN [store EXCEPT ![kind] = out.rows] ELSE store

\* no call of the Database API is in progress
Idle == [op |-> "idle"]

\* one call of upsert_<kind>(batch)
Upsert(kind, batch) ==
    /\ call = Idle
    /\ clock < MaxClock
    /\ LET now == clock + 1
           out == Process(kind, Records(kind, batch), store[kind], 0, now)
       IN  /\ store' = Commit(kind, out)
           /\ call' = [op |-> kind, batch |-> batch, status |-> out.status,
                       ret |-> IF out.status = "ok" THEN out.count ELSE -1,
                       time |-> now]
    /\ prev' = store
    /\ clock' = clock + 1
    /\ UNCHANGED clientvars
    /\ UNCHANGED <<drivervars, extractvars>>

-----------------------------------------------------------------------------
(* The records the calls are given *)

\* the lists of at most MaxBatch records of S
Batches(S) == UNION {[1..n -> S] : n \in 0..MaxBatch}

PlayerRecords ==
    { [id |-> "1", first_name |-> "Ann", team |-> "EDM",
       source |-> "nhl_api"],
      [id |-> "1", first_name |-> "Bea", source |-> "nhl_api"],
      [first_name |-> "Cy"] }

TeamRecords ==
    { [abbreviation |-> "TOR", name |-> "Leafs", source |-> "nhl_api"],
      [abbreviation |-> "TOR", division |-> "Atlantic",
       source |-> "nhl_api"],
      [abbreviation |-> "BOS", name |-> Unserializable] }

GameRecords ==
    { [id |-> "1", date |-> "2024-10-09", home_score |-> "0",
       game_state |-> "FUT", source |-> "nhl_api"],
      [id |-> "1", date |-> "2024-10-10", home_score |-> "3",
       game_state |-> "FINAL", source |-> "nhl_api"],
      [id |-> "0", date |-> "2024-10-09"] }

ContractRecords ==
    { [player_name |-> "Ann", team_abbrev |-> "TOR",
       current_cap_hit |-> "1", source |-> "puckpedia"],
      [player_name |-> "Ann", team_abbrev |-> "TOR",
       current_cap_hit |-> "2", source |-> "capwages"],
      [player_name |-> "Ann", current_cap_hit |-> "3",
       source |-> "puckpedia"],
      [team_abbrev |-> "TOR", current_cap_hit |-> "4",
       source |-> "puckpedia"] }

AdvancedRecords ==
    { [player_id |-> "1", season |-> "20242025", situation |-> "all",
       games_played |-> "10", source |-> "moneypuck"],
      [player_id |-> "1", season |-> "20242025", games_played |-> "11",
       source |-> "nst"],
      [player_id |-> "2", season |-> "20242025", situation |-> "5on5",
       corsi_pct |-> Unserializable, source |-> "moneypuck"] }

Ann34 ==
    [player_id |-> "1", first_name |-> "Ann", last_name |-> "Lee",
     jersey_number |-> "34"]

Ann35 ==
    [player_id |-> "1", first_name |-> "Ann", last_name |-> "",
     jersey_number |-> "35"]

NoId == [first_name |-> "Cy", last_name |-> "Doe"]

\* a player entry with no name
Unnamed == [player_id |-> "1", position |-> "G"]

RosterRecords ==
    { [team_abbrev |-> "TOR", season |-> "20242025", forwards |-> <<Ann34>>,
       defensemen |-> << >>, goalies |-> <<NoId>>],
      [team_abbrev |-> "TOR", season |-> "20242025", forwards |-> <<Ann35>>],
      [season |-> "20242025", forwards |-> <<Ann34>>,
       defensemen |-> <<Ann35>>, goalies |-> << >>],
      [team_abbrev |-> "TOR", season |-> "20242025",
       goalies |-> <<Unnamed>>] }

-----------------------------------------------------------------------------
(* The rate-limited client of the scrapers *)

\* longest run of the event loop's time, in ticks
MaxTime == 8

\* most requests the scrapers send, all instances together
MaxRequests == 4

\* ticks of the event loop's time in one second
TicksPerSecond == 2

\* the scraper classes of src/src/scrapers; one instance of each
Scrapers == {"nhl_roster", "moneypuck", "puckpedia"}

\* REQUESTS_PER_SECOND of each class, as a fraction: 2.0, 0.5 and 0.3
REQUESTS_PER_SECOND ==
    [ nhl_roster |-> [num |-> 2, den |-> 1],
      moneypuck |-> [num |-> 1, den |-> 2],
      puckpedia |-> [num |-> 3, den |-> 10] ]

\* a span of d ticks is at least n/R seconds for the ceiling R of scraper i
AtLeast(i, d, n) ==
    d * REQUESTS_PER_SECOND[i].num >= n * TicksPerSecond * REQUESTS_PER_SECOND[i].den

\* no request yet
Never == -1

\* the least of two separations, Never being none
Least(a, b) == IF a = Never \/ b < a THEN b ELSE a

\* what is seen of one more request at time t in the log g of an instance:
\* all counts the requests sent, paced the ones sent through get / get_json
Logged(g, t, throughGet) ==
    [ n |-> g.n + 1,
      first |-> IF g.n = 0 THEN t ELSE g.first,
      sent |-> t,
      gap |-> IF g.n = 0 THEN Never ELSE Least(g.gap, t - g.sent),
      pn |-> IF throughGet THEN g.pn + 1 ELSE g.pn,
      pfirst |-> IF throughGet /\ g.pn = 0 THEN t ELSE g.pfirst,
      psent |-> IF throughGet THEN t ELSE g.psent,
      pgap |-> IF throughGet /\ g.pn > 0
               THEN Least(g.pgap, t - g.psent) ELSE g.pgap ]

\* the requests sent so far, all instances together
Sent == traffic["nhl_roster"].n + traffic["moneypuck"].n + traffic["puckpedia"].n

\* a pacing state that every instance shares
StampShared(l, i, t) == [j \in DOMAIN l |-> t]

\* the instance notes the time of the request it is about to send
Stamp(l, i, t) == [l EXCEPT ![i] = t]

\* a client that sends at once
NoWait(i) == TRUE

\* the wait of the rate limiter is over: no request was sent, or 1/R has
\* passed since the last_request one
Paced(i) == last_request[i] = Never \/ AtLeast(i, loop_time - last_request[i], 1)

\* BaseScraper.get / get_json: wait for the rate limiter, then send
RateLimitedGet(i) ==
    /\ Sent < MaxRequests
    /\ Paced(i)
    /\ last_request' = Stamp(last_request, i, loop_time)
    /\ traffic' = [traffic EXCEPT ![i] = Logged(@, loop_time, TRUE)]
    /\ UNCHANGED loop_time

\* self.client.get: the HTTP client of the instance, used directly
ClientGet(i) ==
    /\ Sent < MaxRequests
    /\ traffic' = [traffic EXCEPT ![i] = Logged(@, loop_time, FALSE)]
    /\ UNCHANGED <<loop_time, last_request>>

\* NHLRosterScraper.scrape_roster: one get_json per roster
scrape_roster == RateLimitedGet("nhl_roster") /\ UNCHANGED <<dbvars, drivervars, extractvars>>

\* NHLRosterScraper.scrape_player_details: one get_json
scrape_player_details == RateLimitedGet("nhl_roster") /\ UNCHANGED <<dbvars, drivervars, extractvars>>

\* NHLRosterScraper.scrape_all_skater_stats: the request of one page
scrape_all_skater_stats == ClientGet("nhl_roster") /\ UNCHANGED <<dbvars, drivervars, extractvars>>

\* NHLRosterScraper.scrape_all_goalie_stats: the request of one page
scrape_all_goalie_stats == ClientGet("nhl_roster") /\ UNCHANGED <<dbvars, drivervars, extractvars>>

\* MoneyPuckScraper._fetch_csv: one get per CSV file
fetch_csv == RateLimitedGet("moneypuck") /\ UNCHANGED <<dbvars, drivervars, extractvars>>

\* PuckPediaScraper.scrape_team_contracts: one get per team page
scrape_team_contracts == RateLimitedGet("puckpedia") /\ UNCHANGED <<dbvars, drivervars, extractvars>>

\* PuckPediaScraper.scrape_player_contract: one get per player page
scrape_player_contract == RateLimitedGet("puckpedia") /\ UNCHANGED <<dbvars, drivervars, extractvars>>

\* time passes: a response is awaited, a limiter sleeps, rows are parsed
Tick ==
    /\ loop_time < MaxTime
    /\ loop_time' = loop_time + 1
    /\ UNCHANGED <<last_request, traffic>>
    /\ UNCHANGED <<dbvars, drivervars, extractvars>>

\* the scrapers as constructed: nothing sent
NewScrapers ==
    /\ loop_time = 0
    /\ last_request = [i \in Scrapers |-> Never]
    /\ traffic = [i \in Scrapers |->
          [n |-> 0, first |-> Never, sent |-> Never, gap |-> Never,
           pn |-> 0, pfirst |-> Never, psent |-> Never, pgap |-> Never]]

NextClient ==
    \/ scrape_roster
    \/ scrape_player_details
    \/ scrape_all_skater_stats
    \/ scrape_all_goalie_stats
    \/ fetch_csv
    \/ scrape_team_contracts
    \/ scrape_player_contract
    \/ Tick

-----------------------------------------------------------------------------
(* The Database API *)

upsert_players == \E players \in Batches(PlayerRecords) :
    Upsert("players", players)

upsert_teams == \E teams \in Batches(TeamRecords) :
    Upsert("teams", teams)

upsert_games == \E games \in Batches(GameRecords) :
    Upsert("games", games)

upsert_contracts == \E contracts \in Batches(ContractRecords) :
    Upsert("contracts", contracts)

upsert_advanced_stats == \E stats \in Batches(AdvancedRecords) :
    Upsert("advanced_stats", stats)

upsert_rosters == \E rosters \in Batches(RosterRecords) :
    Upsert("rosters", rosters)

\* session.query(<Record>).count() of every table
Counts(s) == [k \in Kinds |-> Cardinality(s[k])]

get_stats ==
    /\ call = Idle
    /\ call' = [op |-> "get_stats", batch |-> << >>, status |-> "ok",
                ret |-> Counts(store), time |-> clock]
    /\ prev' = store
    /\ UNCHANGED <<store, clock>>
    /\ UNCHANGED clientvars
    /\ UNCHANGED <<drivervars, extractvars>>

\* the driver takes the result of the call (or its exception) and goes on
Resume ==
    /\ call # Idle
    /\ call' = Idle
    /\ prev' = store
    /\ UNCHANGED <<store, clock>>
    /\ UNCHANGED clientvars
    /\ UNCHANGED <<drivervars, extractvars>>

-----------------------------------------------------------------------------
(* The driver: the commands of cli.py *)

\* the scraper classes the commands use
Classes == {"nhl_api", "nhl_roster", "moneypuck", "puckpedia"}

\* `x = await scraper.scrape_<...>(...)`: a list of records of a kind
Fetch(kind) == [do |-> "scrape", kind |-> kind, shape |-> "list"]

\* `roster = await scraper.scrape_roster(team, season)`: one record
FetchOne(kind) == [do |-> "scrape", kind |-> kind, shape |-> "one"]

\* `db.upsert_<kind>(x)`
Save(kind) == [do |-> "upsert", kind |-> kind, shape |-> "list"]

\* the tables and lines a show command prints from what it fetched
Show == [do |-> "print", kind |-> "none", shape |-> "none"]

\* `async with <Class>() as scraper:` and the steps of its block
Scope(class, steps) == [class |-> class, steps |-> steps]

\* the scopes of each command, in order; a command with an optional --team
\* is there once for each branch
Plan ==
    [ scrape_teams |->
        << Scope("nhl_api", <<Fetch("teams"), Save("teams")>>) >>,
      scrape_players |->
        << Scope("nhl_api", <<Fetch("players"), Save("players")>>) >>,
      scrape_games |->
        << Scope("nhl_api", <<Fetch("games"), Save("games")>>) >>,
      scrape_all |->
        << Scope("nhl_api", <<Fetch("teams"), Save("teams"),
                              Fetch("players"), Save("players"),
                              Fetch("games"), Save("games")>>) >>,
      standings |->
        << Scope("nhl_api", <<Fetch("none"), Show>>) >>,
      scrape_rosters_team |->
        << Scope("nhl_roster", <<FetchOne("rosters"), Save("rosters")>>) >>,
      scrape_rosters |->
        << Scope("nhl_roster", <<Fetch("rosters"), Save("rosters")>>) >>,
      scrape_advanced |->
        << Scope("moneypuck", <<Fetch("advanced_stats"), Save("advanced_stats"),
                                Fetch("advanced_stats"), Save("advanced_stats")>>) >>,
      scrape_contracts_team |->
        << Scope("puckpedia", <<Fetch("contracts"), Save("contracts")>>) >>,
      scrape_contracts |->
        << Scope("puckpedia", <<Fetch("contracts"), Save("contracts")>>) >>,
      scrape_full |->
        << Scope("nhl_api", <<Fetch("teams"), Save("teams"),
                              Fetch("players"), Save("players")>>),
           Scope("nhl_roster", <<Fetch("rosters"), Save("rosters")>>),
           Scope("moneypuck", <<Fetch("advanced_stats"), Fetch("advanced_stats"),
                                Save("advanced_stats")>>),
           Scope("puckpedia", <<Fetch("contracts"), Save("contracts")>>) >>,
      show_roster |->
        << Scope("nhl_roster", <<FetchOne("none"), Show>>) >>,
      show_player |->
        << Scope("nhl_roster", <<FetchOne("none"), Show>>) >> ]

Commands == DOMAIN Plan

\* the records a scraper may hand to the driver for a table
Samples(kind) ==
    CASE kind = "players" -> PlayerRecords
      [] kind = "teams" -> TeamRecords
      [] kind = "games" -> GameRecords
      [] kind = "contracts" -> ContractRecords
      [] kind = "advanced_stats" -> AdvancedRecords
      [] kind = "rosters" -> RosterRecords
      [] OTHER -> {}

\* what one scrape step returns: nothing or one record, or exactly one
Scraped(step) ==
    {b \in Batches(Samples(step.kind)) :
        IF step.shape = "one" THEN Len(b) = 1 \/ Samples(step.kind) = {}
        ELSE Len(b) <= 1}

\* the scope the command is in, its scraper class and the step it is at
ScopeOf(d) == Plan[d.cmd][d.scope]

ClassOf(d) == ScopeOf(d).class

StepOf(d) == ScopeOf(d).steps[d.step]

\* the block of the scope is being run and a step of it is next
InBlock(d) ==
    d.at = "block" /\ ~d.raised /\ d.step <= Len(ScopeOf(d).steps)

\* a block that is left only when its last step is over
LeavesAtEnd(d) ==
    d.at = "block" /\ ~d.raised /\ d.step > Len(ScopeOf(d).steps)

\* the block of `async with` is left: its last step is over, or a step raised
Leaves(d) ==
    d.at = "block" /\ (d.raised \/ d.step > Len(ScopeOf(d).steps))

\* BaseScraper.__aenter__: the HTTP client of the scraper is opened
aenter(c) == [c EXCEPT !.state = "open"]

\* BaseScraper.__aexit__: the HTTP client is closed, and its connections
aexit(c) == [c EXCEPT !.state = "closed"]

\* requests go through a client: noted, and noted apart if it is not open
Through(c) ==
    [c EXCEPT !.used = TRUE, !.stray = @ \/ c.state # "open"]

\* the step raised: the exception leaves the block
Raise(d) == [d EXCEPT !.raised = TRUE]

\* the step returned: on to the next one
Proceed(d, scraped) == [d EXCEPT !.step = @ + 1, !.scraped = scraped]

\* a command of the CLI is started: asyncio.run(run())
Invoke ==
    /\ driver.at = "shell"
    /\ \E cmd \in Commands :
          driver' = [cmd |-> cmd, scope |-> 1, step |-> 1, at |-> "enter",
                     raised |-> FALSE, scraped |-> << >>]
    /\ UNCHANGED <<client, dbvars, clientvars, extractvars>>

\* `async with <Class>() as scraper:` is entered
Acquire ==
    /\ driver.at = "enter"
    /\ client' = [client EXCEPT ![ClassOf(driver)] = aenter(@)]
    /\ driver' = [driver EXCEPT !.at = "block", !.step = 1]
    /\ UNCHANGED <<dbvars, clientvars, extractvars>>

\* `await scraper.scrape_<...>(...)`: the scraper sends its requests through
\* its client; then it returns records, which are added to what the block
\* holds, or it raises
Scrape ==
    /\ InBlock(driver)
    /\ StepOf(driver).do = "scrape"
    /\ client' = [client EXCEPT ![ClassOf(driver)] = Through(@)]
    /\ \/ \E b \in Scraped(StepOf(driver)) :
             driver' = Proceed(driver, driver.scraped \o b)
       \/ driver' = Raise(driver)
    /\ UNCHANGED <<dbvars, clientvars, extractvars>>

\* `db.upsert_<kind>(...)` of what the block holds: it returns, or it raises
Persist ==
    /\ InBlock(driver)
    /\ StepOf(driver).do = "upsert"
    /\ LET kind == StepOf(driver).kind
           now == clock + 1
           out == Process(kind, Records(kind, driver.scraped), store[kind], 0,
                          now)
       IN  /\ store' = Commit(kind, out)
           /\ call' = [op |-> kind, batch |-> driver.scraped,
                       status |-> out.status,
                       ret |-> IF out.status = "ok" THEN out.count ELSE -1,
                       time |-> now]
           /\ driver' = IF out.status = "ok" THEN Proceed(driver, << >>)
                        ELSE Raise(driver)
    /\ prev' = store
    /\ clock' = clock + 1
    /\ UNCHANGED <<client, clientvars, extractvars>>

\* the printing of a show command: it goes through, or a key is missing
Render ==
    /\ InBlock(driver)
    /\ StepOf(driver).do = "print"
    /\ \/ driver' = Proceed(driver, << >>)
       \/ driver' = Raise(driver)
    /\ UNCHANGED <<client, dbvars, clientvars, extractvars>>

\* the block of `async with` is left: __aexit__ runs; an exception goes on to
\* end the command, otherwise the next scope is entered, if there is one
Release ==
    /\ Leaves(driver)
    /\ client' = [client EXCEPT ![ClassOf(driver)] = aexit(@)]
    /\ driver' =
          IF driver.raised THEN [driver EXCEPT !.at = "failed"]
          ELSE IF driver.scope < Len(Plan[driver.cmd])
          THEN [driver EXCEPT !.scope = @ + 1, !.step = 1, !.at = "enter"]
          ELSE [driver EXCEPT !.at = "done"]
    /\ UNCHANGED <<dbvars, clientvars, extractvars>>

\* the shell before a command; no scraper is constructed
NewDriver ==
    /\ driver = [cmd |-> "none", scope |-> 0, step |-> 0, at |-> "shell",
                 raised |-> FALSE, scraped |-> << >>]
    /\ client = [c \in Classes |->
                    [state |-> "none", used |-> FALSE, stray |-> FALSE]]

NextDriver ==
    \/ Invoke
    \/ Acquire
    \/ Scrape
    \/ Persist
    \/ Render
    \/ Release

-----------------------------------------------------------------------------
(* The program as started *)

\* Base.metadata.create_all on a new file: six empty tables
NewDatabase ==
    /\ store = [k \in Kinds |-> {}]
    /\ prev = [k \in Kinds |-> {}]
    /\ call = Idle
    /\ clock = 0

\* no scraper call has been made
NoCall ==
    /\ sweep = [op |-> "none"]
    /\ csv = [op |-> "none"]
    /\ cal = [op |-> "none"]

Init ==
    /\ NewDatabase
    /\ NewScrapers
    /\ NewDriver
    /\ NoCall

Next ==
    \/ upsert_players
    \/ upsert_teams
    \/ upsert_games
    \/ upsert_contracts
    \/ upsert_advanced_stats
    \/ upsert_rosters
    \/ get_stats
    \/ Resume

Spec == Init /\ [][Next]_vars

SpecClient == Init /\ [][NextClient]_vars

\* every awaited step of a command returns or raises, and so does every other
\* step of it: a command that has a step to take takes one
SpecDriver == Init /\ [][NextDriver]_vars /\ WF_vars(NextDriver)

-----------------------------------------------------------------------------
(* What the claims speak of: natural keys, stated apart from the lookups *)

\* the natural key of a stored row
RowKey(kind, x) ==
    CASE kind = "players" -> <<x.id>>
      [] kind = "teams" -> <<x.abbrev>>
      [] kind = "games" -> <<x.id>>
      [] kind = "contracts" -> <<x.player_name, x.team_abbrev>>
      [] kind = "advanced_stats" -> <<x.player_id, x.season, x.situation>>
      [] kind = "rosters" -> <<x.player_id, x.team_abbrev, x.season>>

\* the natural key of a record; a component the record lacks is None
RecKey(kind, r) ==
    CASE kind = "players" -> <<Get(r, "id", None)>>
      [] kind = "teams" -> <<Get(r, "abbreviation", None)>>
      [] kind = "games" -> <<Get(r, "id", None)>>
      [] kind = "contracts" ->
            <<Get(r, "player_name", None), Get(r, "team_abbrev", None)>>
      [] kind = "advanced_stats" ->
            <<Get(r, "player_id", None), Get(r, "season", None),
              Get(r, "situation", "all")>>
      [] kind = "rosters" ->
            <<Get(r.p, "player_id", None), r.team_abbrev, r.season>>

\* the record names the entity: the identifying component of its key is there
Keyed(kind, r) == RecKey(kind, r)[1] \notin {None, "0", ""}

\* the record has every component of its natural key
Complete(kind, r) ==
    \A j \in 1..Len(RecKey(kind, r)) : RecKey(kind, r)[j] \notin {None, "0", ""}

\* the dict of a record that is kept as the payload
Original(kind, r) == IF kind = "rosters" THEN r.p ELSE r

\* a record whose row cannot be built
Fails(kind, r) ==
    /\ Keyed(kind, r)
    /\ \E f \in DOMAIN Original(kind, r) : Original(kind, r)[f] = Unserializable

Keys(kind, rows) == {RowKey(kind, x) : x \in rows}

\* an upsert call has just returned or raised
Upserted == call # Idle /\ call.op \in Kinds

Returned == Upserted /\ call.status = "ok"

Raised == Upserted /\ call.status = "error"

\* the records of the call, in the order they were processed
Recs == Records(call.op, call.batch)

\* the positions of the records of the call that carry the key of row x
Writers(x) ==
    {i \in 1..Len(Recs) :
        /\ Keyed(call.op, Recs[i])
        /\ RecKey(call.op, Recs[i]) = RowKey(call.op, x)}

\* the last record of the call that wrote row x
LastWriter(x) ==
    Recs[CHOOSE i \in Writers(x) : \A j \in Writers(x) : j <= i]

\* the columns an update refreshes from the record, with the record's key
MutableMap(kind) ==
    CASE kind = "players" -> PlayerUpdateMap
      [] kind = "teams" -> TeamUpdateMap
      [] kind = "games" -> GameUpdateMap
      [] kind = "contracts" -> ContractUpdateMap
      [] kind = "advanced_stats" -> AdvancedUpdateMap
      [] kind = "rosters" -> RosterUpdateMap

\* text is the serialisation of exactly the keys and values of dict d
Holds(text, d) ==
    {text[i] : i \in 1..Len(text)} = {<<f, d[f]>> : f \in DOMAIN d}

\* record i of the call is upserted a second time: every record of the call
\* with its key is this record, and the row stored for the key before the
\* call was last written from this very record
SecondTime(i) ==
    LET k == call.op
        r == Recs[i]
    IN  /\ Keyed(k, r)
        /\ \A j \in 1..Len(Recs) :
              RecKey(k, Recs[j]) = RecKey(k, r) =>
                  Original(k, Recs[j]) = Original(k, r)
        /\ \E x \in prev[k] :
              /\ RowKey(k, x) = RecKey(k, r)
              /\ Holds(x.raw_data, Original(k, r))

-----------------------------------------------------------------------------
(* C1 *)

\* C1: after any sequence of upsert calls, batches with repeated keys
\* included, every table holds at most one row per natural key; and when a
\* record is upserted a second time there is exactly one row for its key, its
\* mutable columns carry the values of the record (a column the record does
\* not give keeps its value) and its updated_at is not earlier than before.
C1_OneRowPerKey ==
    /\ \A k \in Kinds : \A x, y \in store[k] :
          RowKey(k, x) = RowKey(k, y) => x = y
    /\ Returned =>
          \A i \in 1..Len(Recs) : SecondTime(i) =>
              LET k == call.op
                  r == Recs[i]
                  old == CHOOSE x \in prev[k] : RowKey(k, x) = RecKey(k, r)
                  now == {x \in store[k] : RowKey(k, x) = RecKey(k, r)}
              IN  /\ Cardinality(now) = 1
                  /\ \A x \in now :
                        /\ \A c \in DOMAIN MutableMap(k) :
                              x[c] = Get(Original(k, r), MutableMap(k)[c],
                                         old[c])
                        /\ x.updated_at >= old.updated_at

\* a record was upserted a second time, in a batch that names its key twice
C1_Witness ==
    /\ Returned
    /\ \E i, j \in 1..Len(Recs) :
          /\ i < j
          /\ SecondTime(i)
          /\ RecKey(call.op, Recs[i]) = RecKey(call.op, Recs[j])

-----------------------------------------------------------------------------
(* C2 *)

\* the natural keys the records of the call name
BatchKeys ==
    {RecKey(call.op, Recs[i]) :
        i \in {j \in 1..Len(Recs) : Keyed(call.op, Recs[j])}}

\* C2: an upsert call that returns raises the row count of its table, as
\* get_stats reports it, by exactly the number of distinct natural keys of the
\* batch that were not stored before, and leaves the counts of the other
\* tables as they were (a call that raises changes no count).
C2_CountGrowsByNewKeys ==
    Upserted =>
        /\ \A k \in Kinds \ {call.op} : Counts(store)[k] = Counts(prev)[k]
        /\ Counts(store)[call.op] - Counts(prev)[call.op] =
              IF call.status = "ok"
              THEN Cardinality(BatchKeys \ Keys(call.op, prev[call.op]))
              ELSE 0

\* a batch with a new key, a key already stored and a repeated key returned
C2_Witness ==
    /\ Returned
    /\ BatchKeys \ Keys(call.op, prev[call.op]) # {}
    /\ BatchKeys \cap Keys(call.op, prev[call.op]) # {}
    /\ Counts(store)[call.op] = Counts(prev)[call.op] + 1

-----------------------------------------------------------------------------
(* C3 *)

\* C3, as claimed: a record that lacks any component of its natural key is
\* skipped, so the count an upsert call returns is the number of records of
\* the batch that have their whole natural key, and no row is stored under a
\* key with a missing component.
C3_IncompleteKeySkipped ==
    Returned =>
        /\ call.ret =
              Cardinality({i \in 1..Len(Recs) : Complete(call.op, Recs[i])})
        /\ \A x \in store[call.op] :
              \A j \in 1..Len(RowKey(call.op, x)) :
                  RowKey(call.op, x)[j] # None

-----------------------------------------------------------------------------
(* C4 *)

\* C4: no step deletes: every natural key stored before a step is stored after
\* it, and no table has fewer rows after it.
C4_NeverDeletes ==
    [][\A k \in Kinds :
          /\ Keys(k, store[k]) \subseteq Keys(k, store'[k])
          /\ Cardinality(store[k]) <= Cardinality(store'[k])]_vars

\* a call updated a stored row of a table that holds another row it left alone
C4_Witness ==
    /\ Returned
    /\ call.ret > 0
    /\ \E x \in prev[call.op] : x \notin store[call.op]
    /\ \E x \in prev[call.op] : x \in store[call.op]

-----------------------------------------------------------------------------
(* C5 *)

\* C5: an upsert call is one transaction.  When building the row of some
\* record of the batch fails, the call raises and the store is as it was
\* before the call, the records before the failing one included; when no
\* record fails the call returns and every record that names an entity has
\* its row in the store.
C5_OneTransaction ==
    Upserted =>
        IF \E i \in 1..Len(Recs) : Fails(call.op, Recs[i])
        THEN call.status = "error" /\ store = prev
        ELSE /\ call.status = "ok"
             /\ \A i \in 1..Len(Recs) : Keyed(call.op, Recs[i]) =>
                   RecKey(call.op, Recs[i]) \in Keys(call.op, store[call.op])

\* the second record of a batch failed after the first, which names a key that
\* was not stored, had been processed
C5_Witness ==
    /\ Raised
    /\ Len(Recs) = 2
    /\ Keyed(call.op, Recs[1])
    /\ ~Fails(call.op, Recs[1])
    /\ Fails(call.op, Recs[2])
    /\ RecKey(call.op, Recs[1]) \notin Keys(call.op, prev[call.op])

-----------------------------------------------------------------------------
(* C9 *)

\* C9: every row holds, as its payload, the whole record of the last upsert
\* that wrote it: after a call that returned, a row whose key the batch names
\* holds exactly the keys and values of the last record of the batch with that
\* key, and every other row is as it was before the call.
C9_PayloadIsLastRecord ==
    Returned =>
        \A x \in store[call.op] :
            IF Writers(x) # {}
            THEN Holds(x.raw_data, Original(call.op, LastWriter(x)))
            ELSE x \in prev[call.op]

\* a stored row was updated from a record that differs from the one it held
C9_Witness ==
    /\ Returned
    /\ \E x \in store[call.op] : \E y \in prev[call.op] :
          /\ RowKey(call.op, x) = RowKey(call.op, y)
          /\ Writers(x) # {}
          /\ x.raw_data # y.raw_data

-----------------------------------------------------------------------------
(* C10 *)

\* the source tag a row carries: its source column when its table has one,
\* else the source its payload names, else None
Tag(x) ==
    IF "source" \in DOMAIN x THEN x.source
    ELSE IF \E i \in 1..Len(x.raw_data) : x.raw_data[i][1] = "source"
    THEN LET i == CHOOSE j \in 1..Len(x.raw_data) : x.raw_data[j][1] = "source"
         IN  x.raw_data[i][2]
    ELSE None

\* C10, as claimed: every stored row carries a source tag, which names the
\* provenance of the record that last wrote it, and an updated_at that this
\* write set.
C10_SourceAndUpdatedAt ==
    /\ \A k \in Kinds : \A x \in store[k] : Tag(x) # None
    /\ Returned =>
          \A x \in store[call.op] : Writers(x) # {} =>
              /\ Tag(x) = Get(Original(call.op, LastWriter(x)), "source", None)
              /\ x.updated_at = call.time

-----------------------------------------------------------------------------
(* C6 *)

\* C6: the requests one scraper instance sends through its rate-limited
\* client are paced by the ceiling R of its class: every two consecutive ones
\* are at least 1/R apart, so N of them span at least (N-1)/R; and the pacing
\* state is the instance's own: it is the time of the instance's own last_request such
\* request, whatever the other instances send.
C6_Paced ==
    \A i \in Scrapers :
        /\ traffic[i].pn >= 2 =>
              /\ AtLeast(i, traffic[i].pgap, 1)
              /\ AtLeast(i, traffic[i].psent - traffic[i].pfirst,
                         traffic[i].pn - 1)
        /\ last_request[i] = traffic[i].psent

\* an instance has sent three paced requests while another instance sent one
\* less than 1/R after one of them
C6_Witness ==
    \E i, j \in Scrapers :
        /\ i # j
        /\ traffic[i].pn = 3
        /\ traffic[j].pn >= 1
        /\ traffic[j].psent >= traffic[i].psent
        /\ ~AtLeast(i, traffic[j].psent - traffic[i].psent, 1)

-----------------------------------------------------------------------------
(* C7 *)

\* C7, as claimed: every request a scraper sends goes through the
\* rate-limited client, the page requests of all_skater_stats and
\* all_goalie_stats included, so that any two consecutive requests of an
\* instance are at least 1/R apart.
C7_EveryRequestPaced ==
    \A i \in Scrapers :
        /\ traffic[i].pn = traffic[i].n
        /\ traffic[i].n >= 2 => AtLeast(i, traffic[i].gap, 1)

-----------------------------------------------------------------------------
(* C8 *)

\* the scrapers of the scopes before the one the command is in
Earlier == {Plan[driver.cmd][k].class : k \in 1..(driver.scope - 1)}

\* C8: the client of a scraper is a scoped resource. In every run of a
\* command, a client that is opened is closed in the end, also when a scrape
\* step or an upsert of the block raised; no request goes through a client that
\* is not open, so none after its release; and in scrape_full the client of a
\* source is closed before the client of the next source is opened.
C8_ScopedResource ==
    /\ [](\A c \in Classes : ~client[c].stray)
    /\ [](driver.cmd = "scrape_full" =>
             \A c \in Earlier : client[c].state = "closed")
    /\ (\E c \in Classes : client[c].state = "open")
          ~> (\A c \in Classes : client[c].state # "open")

\* scrape_full has failed in the block of its third source on an upsert that
\* raised, after requests through every client so far, and the three clients
\* are closed
C8_Witness ==
    /\ driver.cmd = "scrape_full"
    /\ driver.at = "failed"
    /\ driver.scope = 3
    /\ StepOf(driver).do = "upsert"
    /\ \A c \in {"nhl_api", "nhl_roster", "moneypuck"} :
          client[c].state = "closed" /\ client[c].used
    /\ client["puckpedia"].state = "none"

-----------------------------------------------------------------------------
(* C11 *)

\* the columns of a games row that an upsert of a stored id may change
GameMutable ==
    {"home_score", "away_score", "game_state", "raw_data", "updated_at"}

\* C11: upsert_games on a record whose id is stored changes, of the row of
\* that id, only home_score, away_score and game_state, with the payload and
\* updated_at: its season, game_date, game_type, home_team and away_team stay
\* as they were, whatever the record holds; a row whose id the batch does not
\* name stays as it was, and so does every other table.
C11_GamesFrame ==
    (Upserted /\ call.op = "games") =>
        /\ \A y \in prev["games"] : \E x \in store["games"] :
              /\ x.id = y.id
              /\ \A c \in DOMAIN y \ GameMutable : x[c] = y[c]
              /\ Writers(x) = {} => x = y
        /\ \A k \in Kinds \ {"games"} : store[k] = prev[k]

\* a stored game was upserted from a record with another date and another
\* score: the row has the new score
C11_Witness ==
    /\ Returned
    /\ call.op = "games"
    /\ \E y \in prev["games"] : \E x \in store["games"] :
          /\ x.id = y.id
          /\ Writers(x) # {}
          /\ Get(LastWriter(x), "date", None) # y.game_date
          /\ x.home_score # y.home_score
          /\ x.home_score = Get(LastWriter(x), "home_score", None)

-----------------------------------------------------------------------------
(* The sweeps over the teams: scrape_all_rosters, scrape_all_contracts *)

\* most teams that fail in one sweep
MaxFailures == 1

\* most calls of scrape_team_contracts in a row
MaxCalls == 3

\* NHL_TEAMS of nhl_roster.py
NHL_TEAMS ==
    <<
       "ANA", "ARI", "BOS", "BUF", "CAR", "CBJ", "CGY", "CHI",
       "COL", "DAL", "DET", "EDM", "FLA", "LAK", "MIN", "MTL",
       "NJD", "NSH", "NYI", "NYR", "OTT", "PHI", "PIT", "SEA",
       "SJS", "STL", "TBL", "TOR", "UTA", "VAN", "VGK", "WPG", "WSH"
    >>

\* TEAM_SLUGS of puckpedia.py: the items of the dict, in its order
TEAM_SLUGS ==
    <<
       <<"ANA", "anaheim-ducks">>, <<"BOS", "boston-bruins">>,
       <<"BUF", "buffalo-sabres">>, <<"CAR", "carolina-hurricanes">>,
       <<"CBJ", "columbus-blue-jackets">>, <<"CGY", "calgary-flames">>,
       <<"CHI", "chicago-blackhawks">>, <<"COL", "colorado-avalanche">>,
       <<"DAL", "dallas-stars">>, <<"DET", "detroit-red-wings">>,
       <<"EDM", "edmonton-oilers">>, <<"FLA", "florida-panthers">>,
       <<"LAK", "los-angeles-kings">>, <<"MIN", "minnesota-wild">>,
       <<"MTL", "montreal-canadiens">>, <<"NJD", "new-jersey-devils">>,
       <<"NSH", "nashville-predators">>, <<"NYI", "new-york-islanders">>,
       <<"NYR", "new-york-rangers">>, <<"OTT", "ottawa-senators">>,
       <<"PHI", "philadelphia-flyers">>, <<"PIT", "pittsburgh-penguins">>,
       <<"SEA", "seattle-kraken">>, <<"SJS", "san-jose-sharks">>,
       <<"STL", "st-louis-blues">>, <<"TBL", "tampa-bay-lightning">>,
       <<"TOR", "toronto-maple-leafs">>, <<"UTA", "utah-hockey-club">>,
       <<"VAN", "vancouver-canucks">>, <<"VGK", "vegas-golden-knights">>,
       <<"WPG", "winnipeg-jets">>, <<"WSH", "washington-capitals">>
    >>

\* the keys of TEAM_SLUGS, in the order `for team_abbrev in TEAM_SLUGS` visits
SlugTeams == [k \in 1..Len(TEAM_SLUGS) |-> TEAM_SLUGS[k][1]]

\* TEAM_SLUGS.get(team_abbrev)
Slug(team) ==
    IF \E k \in 1..Len(TEAM_SLUGS) : TEAM_SLUGS[k][1] = team
    THEN TEAM_SLUGS[CHOOSE k \in 1..Len(TEAM_SLUGS) : TEAM_SLUGS[k][1] = team][2]
    ELSE None

\* what happens to the request of a team and to the parsing of its response
Outcomes == {"ok", "fetch_error", "parse_error"}

\* the roster dict of a team that scrape_roster builds
Snapshot(team, season) == [team_abbrev |-> team, season |-> season]

\* the contract dicts of the rows of a team's page
Contracts(team) ==
    << [player_name |-> "A", team_abbrev |-> team, source |-> "puckpedia"],
       [player_name |-> "B", team_abbrev |-> team, source |-> "puckpedia"] >>

\* scrape_roster(team, season): one get_json, then the parsing; an exception
\* of either leaves the call
ScrapeRoster(team, season, outcome) ==
    [ requests |-> <<team>>,
      result |-> IF outcome = "ok" THEN <<Snapshot(team, season)>> ELSE << >>,
      raised |-> outcome # "ok" ]

\* a lookup that takes every team code for a known one
KnownAlways(team) == TRUE

\* `if not slug` is not taken
Known(team) == Truthy(Slug(team))

\* scrape_team_contracts(team): no request for a team without a slug; an
\* exception of the fetch is caught and gives []; the tables are searched
\* outside the try, so an exception there leaves the call
TeamContracts(team, outcome) ==
    IF ~Known(team)
    THEN [requests |-> << >>, result |-> << >>, raised |-> FALSE]
    ELSE [ requests |-> <<Slug(team)>>,
           result |-> IF outcome = "ok" THEN Contracts(team) ELSE << >>,
           raised |-> outcome = "parse_error" ]

\* a loop body without the try: the exception leaves the sweep
NoTry(s, team, outcome, r) ==
    [s EXCEPT !.i = @ + 1,
              !.requested = @ \o r.requests,
              !.out = IF r.raised THEN @ ELSE @ \o r.result,
              !.failed = IF outcome = "ok" THEN @ ELSE @ \cup {<<team, outcome>>},
              !.at = IF r.raised THEN "raised" ELSE @]

\* the body of the loop over the teams: `try: ... except Exception:` logs the
\* team that raised and goes on to the next team
Try(s, team, outcome, r) ==
    [s EXCEPT !.i = @ + 1,
              !.requested = @ \o r.requests,
              !.out = IF r.raised THEN @ ELSE @ \o r.result,
              !.failed = IF outcome = "ok" THEN @ ELSE @ \cup {<<team, outcome>>}]

\* a sweep that has just been called
Called(op, season) ==
    [op |-> op, season |-> season, i |-> 1, requested |-> << >>, out |-> << >>,
     failed |-> {}, at |-> "loop"]

\* the outcomes a sweep may still meet
MayMeet(s) ==
    IF Cardinality(s.failed) < MaxFailures THEN Outcomes ELSE {"ok"}

\* scrape_all_rosters(season) is called
AllRostersCall ==
    /\ sweep.op = "none"
    /\ \E season \in {"20242025", "20252026"} :
          sweep' = Called("scrape_all_rosters", season)
    /\ UNCHANGED <<dbvars, clientvars, drivervars, csv, cal>>

\* one team of `for team in NHL_TEAMS`
AllRostersTeam ==
    /\ sweep.op = "scrape_all_rosters"
    /\ sweep.at = "loop"
    /\ sweep.i <= Len(NHL_TEAMS)
    /\ \E outcome \in MayMeet(sweep) :
          LET team == NHL_TEAMS[sweep.i]
          IN  sweep' = Try(sweep, team, outcome,
                           ScrapeRoster(team, sweep.season, outcome))
    /\ UNCHANGED <<dbvars, clientvars, drivervars, csv, cal>>

\* scrape_all_contracts() is called
AllContractsCall ==
    /\ sweep.op = "none"
    /\ sweep' = Called("scrape_all_contracts", None)
    /\ UNCHANGED <<dbvars, clientvars, drivervars, csv, cal>>

\* one team of `for team_abbrev in TEAM_SLUGS`
AllContractsTeam ==
    /\ sweep.op = "scrape_all_contracts"
    /\ sweep.at = "loop"
    /\ sweep.i <= Len(SlugTeams)
    /\ \E outcome \in MayMeet(sweep) :
          LET team == SlugTeams[sweep.i]
          IN  sweep' = Try(sweep, team, outcome, TeamContracts(team, outcome))
    /\ UNCHANGED <<dbvars, clientvars, drivervars, csv, cal>>

\* the loop is over: the list is returned
SweepReturn ==
    /\ sweep.op \in {"scrape_all_rosters", "scrape_all_contracts"}
    /\ sweep.at = "loop"
    /\ sweep.i > (IF sweep.op = "scrape_all_rosters" THEN Len(NHL_TEAMS)
                  ELSE Len(SlugTeams))
    /\ sweep' = [sweep EXCEPT !.at = "returned"]
    /\ UNCHANGED <<dbvars, clientvars, drivervars, csv, cal>>

\* the team codes scrape_team_contracts is called with: two with a slug, the
\* code of nhl_roster.py that has none, and one that is no team
TeamCodes == {"TOR", "UTA", "ARI", "XXX"}

\* scrape_team_contracts(team) is called, on its own, and returns or raises
TeamContractsCall ==
    /\ sweep.op \in {"none", "scrape_team_contracts"}
    /\ \E team \in TeamCodes, outcome \in Outcomes :
          LET calls == IF sweep.op = "none" THEN << >> ELSE sweep.calls
              r == TeamContracts(team, outcome)
          IN  /\ Len(calls) < MaxCalls
              /\ sweep' = [op |-> "scrape_team_contracts",
                           calls |-> Append(calls,
                               [team |-> team, outcome |-> outcome,
                                requests |-> r.requests, result |-> r.result,
                                raised |-> r.raised])]
    /\ UNCHANGED <<dbvars, clientvars, drivervars, csv, cal>>

NextSweep ==
    \/ AllRostersCall
    \/ AllRostersTeam
    \/ AllContractsCall
    \/ AllContractsTeam
    \/ SweepReturn
    \/ TeamContractsCall

SpecSweep == Init /\ [][NextSweep]_vars

-----------------------------------------------------------------------------
(* C12 *)

\* the sweep is one over the teams
Sweeping(op) == sweep.op = op

\* the first n entries of a list
Prefix(seq, n) == [k \in 1..n |-> seq[k]]

\* the teams of a list that the sweep visited and that did not fail, in order
RECURSIVE Succeeded(_, _)
Succeeded(teams, n) ==
    IF n = 0 THEN << >>
    ELSE IF \E o \in Outcomes : <<teams[n], o>> \in sweep.failed
    THEN Succeeded(teams, n - 1)
    ELSE Append(Succeeded(teams, n - 1), teams[n])

\* C12, as claimed: scrape_all_rosters sends exactly one roster request for
\* each team of a fixed list of 32 team codes, in the order of the list; a
\* team whose request or parsing fails is left out and the teams after it are
\* still requested, so that the call returns, without raising, the snapshots
\* of the teams that did not fail, in the order of the list.
C12_OneRequestPerTeamOf32 ==
    Sweeping("scrape_all_rosters") =>
        /\ sweep.at # "raised"
        /\ sweep.requested = Prefix(NHL_TEAMS, sweep.i - 1)
        /\ sweep.out = [k \in 1..Len(Succeeded(NHL_TEAMS, sweep.i - 1)) |->
                          Snapshot(Succeeded(NHL_TEAMS, sweep.i - 1)[k],
                                   sweep.season)]
        /\ sweep.at = "returned" => Len(sweep.requested) = 32

-----------------------------------------------------------------------------
(* C13 *)

\* the contract dicts of the first n teams of a list, one team after another
RECURSIVE ContractsOf(_, _)
ContractsOf(teams, n) ==
    IF n = 0 THEN << >>
    ELSE ContractsOf(teams, n - 1) \o Contracts(teams[n])

\* C13: scrape_all_contracts visits the teams of the slug mapping one after
\* another, in the order of the mapping, and no failure of a team ends it: when
\* the fetch or the parsing of a team's page fails, the sweep goes on with the
\* next team, it never raises, and what it has collected is the contracts of
\* the teams visited that did not fail, in team order, with nothing of a
\* failed team.
C13_TeamFailureNeverAborts ==
    Sweeping("scrape_all_contracts") =>
        /\ sweep.at # "raised"
        /\ sweep.requested = [k \in 1..(sweep.i - 1) |-> Slug(SlugTeams[k])]
        /\ sweep.out =
              ContractsOf(Succeeded(SlugTeams, sweep.i - 1),
                          Len(Succeeded(SlugTeams, sweep.i - 1)))
        /\ sweep.at = "returned" => sweep.i = Len(SlugTeams) + 1

\* the sweep has returned after the parsing of the page of a team that is
\* not the last one raised: the teams after it were requested and their
\* contracts are in the result
C13_Witness ==
    /\ Sweeping("scrape_all_contracts")
    /\ sweep.at = "returned"
    /\ \E k \in 1..(Len(SlugTeams) - 1) :
          /\ <<SlugTeams[k], "parse_error">> \in sweep.failed
          /\ sweep.requested[k + 1] = Slug(SlugTeams[k + 1])
          /\ \E j \in 1..Len(sweep.out) :
                sweep.out[j].team_abbrev = SlugTeams[k + 1]
          /\ \A j \in 1..Len(sweep.out) :
                sweep.out[j].team_abbrev # SlugTeams[k]

-----------------------------------------------------------------------------
(* C14 *)

\* the team code has no entry in the slug mapping
Unmapped(team) == \A k \in 1..Len(TEAM_SLUGS) : TEAM_SLUGS[k][1] # team

\* C14: scrape_team_contracts with a team code that has no slug returns an
\* empty list, sends no request and does not raise; and the calls for other
\* team codes before and after it do what they do without it: one request for
\* the team's slug, and the contracts of the page when it is fetched and
\* parsed.
C14_UnknownTeamIsEmpty ==
    Sweeping("scrape_team_contracts") =>
        \A k \in 1..Len(sweep.calls) :
            LET c == sweep.calls[k]
            IN  IF Unmapped(c.team)
                THEN c.result = << >> /\ c.requests = << >> /\ ~c.raised
                ELSE /\ c.requests = <<Slug(c.team)>>
                     /\ c.outcome = "ok" => c.result = Contracts(c.team)

\* a call for a code without a slug between two calls for teams that have one
C14_Witness ==
    /\ Sweeping("scrape_team_contracts")
    /\ Len(sweep.calls) = 3
    /\ ~Unmapped(sweep.calls[1].team) /\ sweep.calls[1].outcome = "ok"
    /\ sweep.calls[2].team = "ARI"
    /\ ~Unmapped(sweep.calls[3].team) /\ sweep.calls[3].outcome = "ok"
    /\ sweep.calls[3].result # << >>

-----------------------------------------------------------------------------
(* The season ids: get_current_season of the two scrapers *)

\* the digits of str(n)
Digit == <<"0", "1", "2", "3", "4", "5", "6", "7", "8", "9">>

\* str(n) of an int n >= 0
RECURSIVE Decimal(_)
Decimal(n) ==
    IF n < 10 THEN Digit[n + 1]
    ELSE Decimal(n \div 10) \o Digit[(n % 10) + 1]

\* a season that starts only in November
RolloverLate(month) == month > 10

\* `now.month >= 10`: the season of the year has started
Rollover(month) == month >= 10

\* `now.year if now.month >= 10 else now.year - 1`
StartYear(now) == IF Rollover(now.month) THEN now.year ELSE now.year - 1

\* NHLRosterScraper.get_current_season: f"{year}{year + 1}"
NhlCurrentSeason(now) ==
    Decimal(StartYear(now)) \o Decimal(StartYear(now) + 1)

\* MoneyPuckScraper.get_current_season: str(year)
MoneyPuckCurrentSeason(now) == Decimal(StartYear(now))

\* the dates datetime.now() is taken from
Dates ==
    [year : 1999..2030, month : 1..12, day : {1, 15, 28}]

\* NHLRosterScraper.get_current_season() on the date of the day
nhl_get_current_season ==
    /\ cal.op = "today"
    /\ cal.nhl = None
    /\ cal' = [cal EXCEPT !.nhl = NhlCurrentSeason(cal.now)]
    /\ UNCHANGED <<dbvars, clientvars, drivervars, sweep, csv>>

\* MoneyPuckScraper.get_current_season() on the date of the day
moneypuck_get_current_season ==
    /\ cal.op = "today"
    /\ cal.moneypuck = None
    /\ cal' = [cal EXCEPT !.moneypuck = MoneyPuckCurrentSeason(cal.now)]
    /\ UNCHANGED <<dbvars, clientvars, drivervars, sweep, csv>>

\* the program on some day, before a season id is asked for
InitSeason ==
    /\ NewDatabase
    /\ NewScrapers
    /\ NewDriver
    /\ sweep = [op |-> "none"]
    /\ csv = [op |-> "none"]
    /\ \E now \in Dates :
          cal = [op |-> "today", now |-> now, nhl |-> None,
                 moneypuck |-> None]

NextSeason ==
    \/ nhl_get_current_season
    \/ moneypuck_get_current_season

SpecSeason == InitSeason /\ [][NextSeason]_vars

-----------------------------------------------------------------------------
(* C19 *)

\* the start year of the season of a date, by the months of the year
SeasonStart(now) ==
    IF now.month \in {10, 11, 12} THEN now.year ELSE now.year - 1

\* C19: on every date, the league API's current season is the 8-digit string
\* of Y followed by Y + 1, where Y is the calendar year from October to
\* December and the year before from January to September; the analytics
\* source's current season on that date is the 4-digit string of the same Y.
C19_SeasonOfDate ==
    cal.op = "today" =>
        /\ cal.nhl # None =>
              /\ cal.nhl = Decimal(SeasonStart(cal.now))
                              \o Decimal(SeasonStart(cal.now) + 1)
              /\ Len(cal.nhl) = 8
        /\ cal.moneypuck # None =>
              /\ cal.moneypuck = Decimal(SeasonStart(cal.now))
              /\ Len(cal.moneypuck) = 4

\* both season ids were derived on a day of October, and on a day of
\* September they would be those of the year before
C19_Witness ==
    /\ cal.op = "today"
    /\ cal.now.month = 10
    /\ cal.nhl = "20252026"
    /\ cal.moneypuck = "2025"
    /\ NhlCurrentSeason([cal.now EXCEPT !.month = 9]) = "20242025"

-----------------------------------------------------------------------------
(* MoneyPuck: the CSV files and the parsing of their rows *)

\* most rows of a CSV file
MaxRows == 2

\* the exceptions of the conversions
ValueError == "<ValueError>"

OverflowError == "<OverflowError>"

\* the texts a cell of the file may hold; no cell holds the text "0", which
\* stands for the int 0 here
Texts == {"", "7.9", "abc", "nan", "inf"}

\* float(val) of a text
ParseFloat(val) ==
    CASE val = "7.9" -> "7.9"
      [] val = "8" -> "8.0"
      [] val = "nan" -> "nan"
      [] val = "inf" -> "inf"
      [] OTHER -> ValueError

\* int(f) of a float: it truncates, it has no value for nan and none for inf
Truncate(f) ==
    CASE f = "7.9" -> "7"
      [] f = "8.0" -> "8"
      [] f = "nan" -> ValueError
      [] f = "inf" -> OverflowError

\* safe_int(val, default): `int(float(val)) if val else default`, with
\* ValueError and TypeError taken for the default; any other exception leaves
\* it
safe_int(val, default) ==
    IF ~Truthy(val) THEN default
    ELSE IF ParseFloat(val) = ValueError THEN default
    ELSE IF Truncate(ParseFloat(val)) = ValueError THEN default
    ELSE Truncate(ParseFloat(val))

\* safe_float(val, default): `float(val) if val else default`, with ValueError
\* and TypeError taken for the default
safe_float(val, default) ==
    IF ~Truthy(val) THEN default
    ELSE IF ParseFloat(val) = ValueError THEN default
    ELSE ParseFloat(val)

\* int(season) of the texts a season is given as
ParseInt(text) ==
    CASE text = "2024" -> 2024
      [] text = "2025" -> 2025
      [] text = "20242025" -> 20242025

\* int(season) raises ValueError
NotInt(text) == text \notin {"2024", "2025", "20242025"}

\* f"{season}{int(season)+1}"
SeasonId(season) ==
    IF NotInt(season) THEN ValueError
    ELSE season \o Decimal(ParseInt(season) + 1)

\* the integer fields of a skater record that are one safe_int of one column
SkaterInts ==
    [ player_id |-> "playerId", games_played |-> "games_played",
      toi_seconds |-> "icetime", corsi_against |-> "OnIce_A_shotAttempts",
      fenwick_for |-> "OnIce_F_unblockedShotAttempts",
      fenwick_against |-> "OnIce_A_unblockedShotAttempts",
      scoring_chances_for |-> "OnIce_F_scoringChances",
      scoring_chances_against |-> "OnIce_A_scoringChances",
      high_danger_chances_for |-> "OnIce_F_highDangerShotAttempts",
      high_danger_chances_against |-> "OnIce_A_highDangerShotAttempts",
      high_danger_goals_for |-> "OnIce_F_highDangerGoals",
      high_danger_goals_against |-> "OnIce_A_highDangerGoals",
      offensive_zone_starts |-> "I_F_oZoneShiftStarts",
      defensive_zone_starts |-> "I_F_dZoneShiftStarts",
      neutral_zone_starts |-> "I_F_neutralZoneShiftStarts",
      shots |-> "I_F_shotsOnGoal", goals |-> "I_F_goals",
      primary_assists |-> "I_F_primaryAssists",
      secondary_assists |-> "I_F_secondaryAssists",
      individual_corsi_for |-> "I_F_shotAttempts" ]

\* the float fields of a skater record, each with its column and its default
SkaterFloats ==
    [ corsi_pct |-> <<"onIce_corsiPercentage", None>>,
      corsi_rel |-> <<"offIce_corsiPercentage", None>>,
      fenwick_pct |-> <<"onIce_fenwickPercentage", None>>,
      xg_for |-> <<"OnIce_F_xGoals", "0.0">>,
      xg_against |-> <<"OnIce_A_xGoals", "0.0">>,
      xg_pct |-> <<"onIce_xGoalsPercentage", None>>,
      individual_xg |-> <<"I_F_xGoals", "0.0">>,
      goals_above_expected |->
          <<"I_F_xGoals_with_rebounds_normalized_per_game", None>>,
      offensive_zone_start_pct |-> <<"offensiveZoneStartPct", None>>,
      on_ice_sh_pct |-> <<"onIce_F_shootingPct", None>>,
      on_ice_sv_pct |-> <<"onIce_A_savePct", None>>,
      pdo |-> <<"PDO", None>> ]

\* the integer fields of a goalie record that are one safe_int of one column
GoalieInts ==
    [ player_id |-> "playerId", games_played |-> "games_played",
      toi_seconds |-> "icetime", shots_against |-> "shotsOnGoal",
      goals_against |-> "goals",
      low_danger_shots |-> "lowDangerShotsOnGoal",
      low_danger_goals |-> "lowDangerGoals",
      medium_danger_shots |-> "mediumDangerShotsOnGoal",
      medium_danger_goals |-> "mediumDangerGoals",
      high_danger_shots |-> "highDangerShotsOnGoal",
      high_danger_goals |-> "highDangerGoals",
      rebounds_given |-> "reboundsCreated",
      rebound_goals_against |-> "reboundGoals" ]

\* the float fields of a goalie record, each with its column and its default
GoalieFloats ==
    [ save_pct |-> <<"onGoalSavePercentage", None>>,
      xg_against |-> <<"xGoals", "0.0">>,
      goals_saved_above_expected |-> <<"goalsAboveExpected", None>>,
      low_danger_save_pct |-> <<"lowDangerSavePercentage", None>>,
      medium_danger_save_pct |-> <<"mediumDangerSavePercentage", None>>,
      high_danger_save_pct |-> <<"highDangerSavePercentage", None>>,
      freeze_pct |-> <<"freezePct", None>> ]

\* the value of an int written as Python writes it, and back
Value(n) == CASE n = "0" -> 0 [] n = "7" -> 7 [] n = "8" -> 8

Written(n) == IF n < 0 THEN "-" \o Decimal(0 - n) ELSE Decimal(n)

\* a + b and a - b of two ints
Plus(a, b) == Written(Value(a) + Value(b))

Minus(a, b) == Written(Value(a) - Value(b))

\* the fields of a row that are converted: every field is there, and a field
\* whose conversion raised holds the exception
Converted(ints, floats, row) ==
    [f \in DOMAIN ints |-> safe_int(Get(row, ints[f], None), "0")]
        @@ [f \in DOMAIN floats |->
               safe_float(Get(row, floats[f][1], None), floats[f][2])]

\* the fields that are taken from the row as they are
Copied(row, season) ==
    [ player_name |-> Get(row, "name", ""),
      team_abbrev |-> Get(row, "team", ""),
      season |-> SeasonId(season),
      situation |-> Get(row, "situation", "all"),
      source |-> "moneypuck" ]

\* the exception that leaves the parsing of a row, "none" when it returns:
\* the first that is raised where the fields are evaluated; first is the set
\* of the fields evaluated before the season
Exception(rec, first) ==
    IF \E f \in first : rec[f] = OverflowError THEN OverflowError
    ELSE IF rec.season = ValueError THEN ValueError
    ELSE IF \E f \in DOMAIN rec : rec[f] = OverflowError THEN OverflowError
    ELSE "none"

\* "corsi_for" of a skater
CorsiFor(row) ==
    IF Truthy(Get(row, "onIce_corsiPercentage", None))
    THEN safe_int(Get(row, "onIce_corsiPercentage", None), "0")
    ELSE IF OverflowError \in
              { safe_int(Get(row, "I_F_shotAttempts", "0"), "0"),
                safe_int(Get(row, "OnIce_F_shotAttempts", "0"), "0") }
    THEN OverflowError
    ELSE Plus(safe_int(Get(row, "I_F_shotAttempts", "0"), "0"),
              safe_int(Get(row, "OnIce_F_shotAttempts", "0"), "0"))

\* _parse_skater_row(row, season): the record, and the exception that left it
ParseSkaterRow(row, season) ==
    LET rec == Converted(SkaterInts, SkaterFloats, row)
                   @@ Copied(row, season)
                   @@ [position |-> Get(row, "position", ""),
                       corsi_for |-> CorsiFor(row)]
    IN  [rec |-> rec, exc |-> Exception(rec, {"player_id"})]

\* _parse_goalie_row(row, season)
ParseGoalieRow(row, season) ==
    LET conv == Converted(GoalieInts, GoalieFloats, row)
        rec == conv @@ Copied(row, season)
                 @@ [saves |->
                       IF OverflowError \in
                             {conv.shots_against, conv.goals_against}
                       THEN OverflowError
                       ELSE Minus(conv.shots_against, conv.goals_against)]
    IN  [rec |-> rec,
         exc |-> Exception(rec, {"shots_against", "goals_against", "saves",
                                 "player_id"})]

ParseRow(kind, row, season) ==
    IF kind = "skaters" THEN ParseSkaterRow(row, season)
    ELSE ParseGoalieRow(row, season)

\* a filter that keeps every row
FilteredNone(rows, situation) == rows

\* [r for r in raw_data if r.get("situation") == situation]
RECURSIVE Filtered(_, _)
Filtered(rows, situation) ==
    IF rows = << >> THEN << >>
    ELSE IF Get(Head(rows), "situation", None) = situation
    THEN <<Head(rows)>> \o Filtered(Tail(rows), situation)
    ELSE Filtered(Tail(rows), situation)

\* the loop over the rows: a row that raises ValueError is logged and left
\* out; any other exception leaves the loop and the call
RECURSIVE ParseAll(_, _, _, _)
ParseAll(kind, rows, season, acc) ==
    IF rows = << >> THEN acc
    ELSE LET p == ParseRow(kind, Head(rows), season)
             tried == [acc EXCEPT !.attempted = @ + 1]
         IN  IF p.exc = "none"
             THEN ParseAll(kind, Tail(rows), season,
                           [tried EXCEPT !.result = Append(@, p.rec)])
             ELSE IF p.exc = ValueError
             THEN ParseAll(kind, Tail(rows), season, tried)
             ELSE [tried EXCEPT !.at = "raised", !.result = << >>]

\* a call that lets the exception of the fetch through
ScrapingUncaught(kind, season, situation, fetched, file) ==
    IF ~fetched
    THEN [at |-> "raised", result |-> << >>, attempted |-> 0]
    ELSE ParseAll(kind, Filtered(file, situation), season,
                  [at |-> "returned", result |-> << >>, attempted |-> 0])

\* scrape_skater_stats / scrape_goalie_stats once the season is known: the
\* file is fetched; a fetch that raises gives []; the rows of the situation
\* are parsed
Scraping(kind, season, situation, fetched, file) ==
    IF ~fetched
    THEN [at |-> "returned", result |-> << >>, attempted |-> 0]
    ELSE ParseAll(kind, Filtered(file, situation), season,
                  [at |-> "returned", result |-> << >>, attempted |-> 0])

\* a row of a file: its situation tag, its player id, and the text t in
\* every other column that is converted
Row(tag, id, t) ==
    [c \in {SkaterInts[f] : f \in DOMAIN SkaterInts \ {"player_id"}}
           \cup {SkaterFloats[f][1] : f \in DOMAIN SkaterFloats}
           \cup {GoalieInts[f] : f \in DOMAIN GoalieInts \ {"player_id"}}
           \cup {GoalieFloats[f][1] : f \in DOMAIN GoalieFloats} |-> t]
        @@ [situation |-> tag, playerId |-> id, name |-> "Ann", team |-> "TOR"]

\* the rows of the files: tagged rows with every text, a row with no player
\* id, and a row with no column but the name
Rows ==
    {Row(tag, "8", t) : tag \in {"all", "5on5"}, t \in Texts}
        \cup {Row("all", "", "7.9"), [name |-> "Bea"]}

\* the files: at most MaxRows rows
Files == UNION {[1..n -> Rows] : n \in 0..MaxRows}

\* the season a call is given: None, the start year, a double-year id as the
\* league API takes it, a text that is no number
Seasons == {None, "2024", "20242025", "abc"}

\* the days a call is made on
Days == { [year |-> 2025, month |-> 9, day |-> 15],
          [year |-> 2025, month |-> 10, day |-> 15] }

\* `if season is None: season = await self.get_current_season()`
SeasonOr(season, now) ==
    IF season = None THEN MoneyPuckCurrentSeason(now) ELSE season

\* the call and what came of it
CallOf(kind, season, situation, fetched, file, now) ==
    [op |-> kind, season |-> season, situation |-> situation,
     fetched |-> fetched, file |-> file, now |-> now]
        @@ Scraping(kind, SeasonOr(season, now), situation, fetched, file)

\* scrape_skater_stats(season, situation)
scrape_skater_stats ==
    /\ csv.op = "none"
    /\ \E season \in Seasons, situation \in {"all", "5on5"},
          fetched \in BOOLEAN, file \in Files, now \in Days :
          /\ season # None => now = CHOOSE d \in Days : TRUE
          /\ csv' = CallOf("skaters", season, situation, fetched, file, now)
    /\ UNCHANGED <<dbvars, clientvars, drivervars, sweep, cal>>

\* scrape_goalie_stats(season)
scrape_goalie_stats ==
    /\ csv.op = "none"
    /\ \E season \in Seasons, fetched \in BOOLEAN, file \in Files,
          now \in Days :
          /\ season # None => now = CHOOSE d \in Days : TRUE
          /\ csv' = CallOf("goalies", season, "all", fetched, file, now)
    /\ UNCHANGED <<dbvars, clientvars, drivervars, sweep, cal>>

NextCsv ==
    \/ scrape_skater_stats
    \/ scrape_goalie_stats

SpecCsv == Init /\ [][NextCsv]_vars

-----------------------------------------------------------------------------
(* MoneyPuck: the claims *)

\* a call of skater_stats or goalie_stats has been made
CsvCalled == csv.op \in {"skaters", "goalies"}

\* the season the rows of the call are parsed with
SeasonUsed == SeasonOr(csv.season, csv.now)

\* the rows of the file that carry the requested situation tag, in file order
Tagged == SelectSeq(csv.file, LAMBDA r : "situation" \in DOMAIN r
                                           /\ r.situation = csv.situation)

\* C15: when the fetch of the CSV file fails as a whole, skater_stats and
\* goalie_stats return an empty list and do not raise, and no row is parsed
C15_FetchFailureIsEmpty ==
    CsvCalled /\ ~csv.fetched
        => csv.at = "returned" /\ csv.result = << >> /\ csv.attempted = 0

C15_Witness ==
    CsvCalled /\ ~csv.fetched /\ Len(csv.file) = MaxRows
        /\ csv.at = "returned"

\* the tagged rows whose parsing returns
Parseable ==
    SelectSeq(Tagged, LAMBDA r : ParseRow(csv.op, r, SeasonUsed).exc = "none")

\* C16: a call that returns the rows of a fetched file returns exactly the
\* records of the rows whose situation tag is the requested one ("all" for
\* goalie_stats), in file order: no row with another tag is returned, and no
\* row with the requested tag that can be parsed is dropped
C16_ExactlyTheTaggedRows ==
    CsvCalled /\ csv.fetched /\ csv.at = "returned"
        => /\ Len(csv.result) = Len(Parseable)
           /\ \A i \in 1..Len(Parseable) :
                 csv.result[i] = ParseRow(csv.op, Parseable[i], SeasonUsed).rec
           /\ \A i \in 1..Len(csv.result) :
                 csv.result[i].situation = csv.situation
           /\ ~NotInt(SeasonUsed) => Parseable = Tagged
           /\ csv.op = "goalies" => csv.situation = "all"

C16_Witness ==
    /\ CsvCalled /\ csv.fetched /\ csv.at = "returned"
    /\ csv.situation = "all"
    /\ Len(csv.file) = 2
    /\ Get(csv.file[1], "situation", None) = "5on5"
    /\ Get(csv.file[2], "situation", None) = "all"
    /\ Len(csv.result) = 1

\* the integer fields of the records of the call, each with its column
IntFields == IF csv.op = "skaters" THEN SkaterInts ELSE GoalieInts

\* a source value that is missing, empty, or no finite number
NoFiniteNumber(val) == val \in {None, "", "abc", "nan", "inf"}

\* C17: for every row and every integer field, a source value that is
\* missing, empty or no finite number gives 0 in the record; the parsing of
\* the row does not raise and the row is not dropped because of it
C17_IntegerDefaultsToZero ==
    CsvCalled /\ csv.fetched /\ ~NotInt(SeasonUsed)
        => /\ csv.at = "returned"
           /\ Len(csv.result) = Len(Tagged)
           /\ \A i \in 1..Len(csv.result) : \A f \in DOMAIN IntFields :
                 NoFiniteNumber(Get(Tagged[i], IntFields[f], None))
                     => csv.result[i][f] = "0"

\* the float fields of the records of the call, each with its column
FloatFields == IF csv.op = "skaters" THEN SkaterFloats ELSE GoalieFloats

\* a source value that is missing, empty, or no number
NoNumber(val) == val \in {None, "", "abc"}

\* C18: for every row and every float field of a skater or goalie record,
\* the xG fields and the percentages among them, a source value that is
\* missing, empty or no number gives null in the record, and does not raise
C18_FloatDefaultsToNull ==
    CsvCalled /\ csv.at = "returned"
        => \A i \in 1..Len(csv.result) : \A f \in DOMAIN FloatFields :
              NoNumber(Get(Parseable[i], FloatFields[f][1], None))
                  => csv.result[i][f] = None

\* the start years a season may have
Years == 1999..2030

\* a season in double-year form: the 4 digits of the start year, then those
\* of the year after it
DoubleYear(season) == \E y \in Years : season = Decimal(y) \o Decimal(y + 1)

\* C20: every record returned by skater_stats and goalie_stats, whatever
\* season the driver passes, carries its season in double-year form: 8
\* digits, the start year followed by the start year + 1
C20_SeasonIsDoubleYear ==
    CsvCalled /\ csv.at = "returned"
        => \A i \in 1..Len(csv.result) :
              /\ Len(csv.result[i].season) = 8
              /\ DoubleYear(csv.result[i].season)

\* C26: a failure while parsing one row is confined to that row: the row is
\* dropped, every other row with the requested situation is parsed and
\* returned in file order, and no exception of a row's parsing leaves the call
C26_RowFailureIsConfined ==
    CsvCalled /\ csv.fetched
        => /\ csv.at = "returned"
           /\ csv.attempted = Len(Tagged)
           /\ Len(csv.result) = Len(Parseable)
           /\ \A i \in 1..Len(csv.result) :
                 csv.result[i]
                     = ParseRow(csv.op, Parseable[i], SeasonUsed).rec

-----------------------------------------------------------------------------
(* The Database API: empty lists, the advanced statistics, absent keys *)

\* C28: an upsert_* call with an empty list returns 0 and leaves the set of
\* rows and every column of every row, updated_at and the payload among
\* them, as they were
C28_EmptyUpsertIsNoOp ==
    Upserted /\ call.batch = << >>
        => call.status = "ok" /\ call.ret = 0 /\ store = prev

C28_Witness ==
    Upserted /\ call.batch = << >> /\ prev[call.op] # {} /\ call.ret = 0

\* scrape_advanced: `db.upsert_advanced_stats(skaters)`, and the same with
\* the goalies: the list the scraper returned goes to the database as it is
scrape_advanced_save ==
    /\ CsvCalled
    /\ csv.at = "returned"
    /\ Upsert("advanced_stats", csv.result)

NextAdvanced ==
    \/ scrape_skater_stats
    \/ scrape_goalie_stats
    \/ scrape_advanced_save

SpecAdvanced == Init /\ [][NextAdvanced]_vars

\* the driver has passed the list of the scraper to the database
Forwarded ==
    CsvCalled /\ Upserted /\ call.op = "advanced_stats"
        /\ call.batch = csv.result

\* C29: every record skater_stats or goalie_stats returns and the driver
\* forwards is persisted: upsert_advanced_stats returns the number of records
\* the scraper returned, rows without a numeric playerId (player_id 0)
\* included
C29_EveryForwardedRecordPersisted ==
    Forwarded
        => /\ call.status = "ok"
           /\ call.ret = Len(csv.result)
           /\ \A i \in 1..Len(csv.result) :
                 \E x \in store.advanced_stats :
                    /\ x.player_id = csv.result[i].player_id
                    /\ x.season = csv.result[i].season
                    /\ x.situation = csv.result[i].situation

\* the records of the call that wrote row x and hold one of the keys
Giving(x, keys) ==
    {i \in Writers(x) : keys \cap DOMAIN Original(call.op, Recs[i]) # {}}

\* the last of them
LastGiving(x, keys) ==
    Original(call.op,
             Recs[CHOOSE i \in Giving(x, keys) :
                     \A j \in Giving(x, keys) : j <= i])

\* the columns every update writes, whatever the record holds
Bookkeeping == {"raw_data", "updated_at"}

\* column c of row x, which was row y before the call, is as the update path
\* leaves it: a mutable column holds the value of the last record that has
\* its key, null included, and its former value when no record has the key;
\* the player_name of a roster row, made of first_name and last_name, may be
\* rewritten when a record has one of the two; every other column is as it was
AsUpdated(x, y, c) ==
    IF c \in Bookkeeping THEN TRUE
    ELSE IF c \in DOMAIN MutableMap(call.op)
    THEN LET key == MutableMap(call.op)[c]
         IN  IF Giving(x, {key}) = {} THEN x[c] = y[c]
             ELSE x[c] = LastGiving(x, {key})[key]
    ELSE IF call.op = "rosters" /\ c = "player_name"
              /\ Giving(x, {"first_name", "last_name"}) # {}
    THEN x[c] = PlayerName(LastGiving(x, {"first_name", "last_name"}))
    ELSE x[c] = y[c]

\* C30: on the update path of every upsert_*, a mutable field whose key is
\* absent from the record keeps its stored value, a field whose key is
\* present is overwritten with the value given, null included, and the other
\* fields of the row and the rows with other keys are unchanged
C30_AbsentKeysKeepStoredValues ==
    Returned =>
        \A x \in store[call.op] :
            IF Writers(x) = {} THEN x \in prev[call.op]
            ELSE \A y \in prev[call.op] :
                    PrimaryKey(call.op, y) = PrimaryKey(call.op, x)
                        => \A c \in DOMAIN x : AsUpdated(x, y, c)

-----------------------------------------------------------------------------
(* PuckPedia: dollar amounts and the rows of the contract tables *)

\* A text is the sequence of its characters.

LowerCase ==
    << "a", "b", "c", "d", "e", "f", "g", "h", "i", "j", "k", "l", "m",
       "n", "o", "p", "q", "r", "s", "t", "u", "v", "w", "x", "y", "z" >>

UpperCase ==
    << "A", "B", "C", "D", "E", "F", "G", "H", "I", "J", "K", "L", "M",
       "N", "O", "P", "Q", "R", "S", "T", "U", "V", "W", "X", "Y", "Z" >>

\* str.upper()
Upper(text) ==
    [i \in 1..Len(text) |->
        IF \E n \in 1..26 : LowerCase[n] = text[i]
        THEN UpperCase[CHOOSE n \in 1..26 : LowerCase[n] = text[i]]
        ELSE text[i]]

\* str.lower()
Lower(text) ==
    [i \in 1..Len(text) |->
        IF \E n \in 1..26 : UpperCase[n] = text[i]
        THEN LowerCase[CHOOSE n \in 1..26 : UpperCase[n] = text[i]]
        ELSE text[i]]

\* str.strip()
RECURSIVE StripText(_)
StripText(text) ==
    IF text = << >> THEN text
    ELSE IF Head(text) = " " THEN StripText(Tail(text))
    ELSE IF text[Len(text)] = " "
    THEN StripText(SubSeq(text, 1, Len(text) - 1))
    ELSE text

\* text.replace(c, "") for a character c
Without(text, c) == SelectSeq(text, LAMBDA x : x # c)

\* `pat in text`
In(pat, text) ==
    \E i \in 1..(Len(text) - Len(pat) + 1) :
        SubSeq(text, i, i + Len(pat) - 1) = pat

IsDigit(c) == \E d \in 1..10 : Digit[d] = c

\* int() of a run of digits
RECURSIVE DigitsValue(_)
DigitsValue(digits) ==
    IF digits = << >> THEN 0
    ELSE 10 * DigitsValue(SubSeq(digits, 1, Len(digits) - 1))
           + (CHOOSE d \in 1..10 : Digit[d] = digits[Len(digits)]) - 1

RECURSIVE Power10(_)
Power10(n) == IF n = 0 THEN 1 ELSE 10 * Power10(n - 1)

\* float(text): surrounding blanks and a sign are taken; "inf", "infinity"
\* and "nan" in any case are the infinite float and the not-a-number; digits
\* with at most one point are the number num / 10^scale; anything else
\* raises ValueError.  (Exponents and underscores are not in the texts here.)
Float(text) ==
    LET t == StripText(text)
        signed == t # << >> /\ Head(t) \in {"-", "+"}
        neg == t # << >> /\ Head(t) = "-"
        body == IF signed THEN Tail(t) ELSE t
        digits == Without(body, ".")
        points == Len(body) - Len(digits)
        point == IF points = 0 THEN Len(body) + 1
                 ELSE CHOOSE i \in 1..Len(body) : body[i] = "."
    IN  IF Upper(body) \in {<<"I", "N", "F">>,
                            <<"I", "N", "F", "I", "N", "I", "T", "Y">>}
        THEN [kind |-> "inf", neg |-> neg, num |-> 0, scale |-> 0]
        ELSE IF Upper(body) = <<"N", "A", "N">>
        THEN [kind |-> "nan", neg |-> neg, num |-> 0, scale |-> 0]
        ELSE IF digits # << >> /\ points <= 1
                  /\ \A i \in 1..Len(digits) : IsDigit(digits[i])
        THEN [kind |-> "number", neg |-> neg, num |-> DigitsValue(digits),
              scale |-> IF points = 0 THEN 0 ELSE Len(body) - point]
        ELSE [kind |-> "error", neg |-> neg, num |-> 0, scale |-> 0]

\* The products float * factor that the double arithmetic leaves just below
\* the whole number they stand for, so that int() gives one less: the values
\* with one fraction digit below 100, as <<num, scale, factor>>
JustBelow ==
    {<<n, 1, 1000000>> :
        n \in {41, 82, 164, 323, 328, 333, 641, 646, 651, 656, 661, 666, 671}}
      \cup {<<n, 1, 1000>> : n \in {323, 641, 646, 651}}

\* int(f * factor) of a finite float: the product is rounded to a double,
\* then truncated
Product(f, factor) ==
    (f.num * factor) \div Power10(f.scale)
        - (IF <<f.num, f.scale, factor>> \in JustBelow THEN 1 ELSE 0)

\* `try: return int(float(text) * factor) except ValueError: return 0`:
\* the value returned, or the exception that leaves
Scaled(text, factor) ==
    LET f == Float(text)
    IN  CASE f.kind = "error" -> [exc |-> "none", value |-> 0]
          [] f.kind = "nan" -> [exc |-> "none", value |-> 0]
          [] f.kind = "inf" -> [exc |-> OverflowError, value |-> 0]
          [] f.kind = "number" ->
               [exc |-> "none",
                value |-> IF f.neg THEN 0 - Product(f, factor)
                          ELSE Product(f, factor)]

\* _parse_salary(text)
ParseSalary(text) ==
    IF text = << >> THEN [exc |-> "none", value |-> 0]
    ELSE LET t == Without(Without(StripText(text), "$"), ",")
         IN  IF In(<<"M">>, Upper(t))
             THEN Scaled(Without(Upper(t), "M"), 1000000)
             ELSE IF In(<<"K">>, Upper(t))
             THEN Scaled(Without(Upper(t), "K"), 1000)
             ELSE Scaled(t, 1)

\* the loop over the cells after the first: the first dollar value goes to
\* cap_hit while cap_hit is 0, the next to salary while salary is 0; a cell
\* that is UFA, RFA or 10.2(C) in any case is the expiry status; an exception
\* of _parse_salary leaves the loop
RECURSIVE Scan(_, _)
Scan(texts, acc) ==
    IF texts = << >> \/ acc.exc # "none" THEN acc
    ELSE LET text == Head(texts)
             v == ParseSalary(text)
         IN  IF In(<<"$">>, text)
             THEN IF v.exc # "none"
                  THEN [acc EXCEPT !.exc = v.exc]
                  ELSE IF acc.cap_hit = 0
                  THEN Scan(Tail(texts), [acc EXCEPT !.cap_hit = v.value])
                  ELSE IF acc.salary = 0
                  THEN Scan(Tail(texts), [acc EXCEPT !.salary = v.value])
                  ELSE Scan(Tail(texts), acc)
             ELSE IF Upper(text) \in {<<"U", "F", "A">>, <<"R", "F", "A">>,
                                      <<"1", "0", ".", "2", "(", "C", ")">>}
             THEN Scan(Tail(texts), [acc EXCEPT !.expiry_status = Upper(text)])
             ELSE Scan(Tail(texts), acc)

\* " ".join(cell_texts)
RECURSIVE Join(_)
Join(texts) ==
    IF texts = << >> THEN << >>
    ELSE IF Len(texts) = 1 THEN texts[1]
    ELSE texts[1] \o <<" ">> \o Join(Tail(texts))

\* the run of digits of text that starts at i
RECURSIVE Run(_, _)
Run(text, i) ==
    IF i > Len(text) \/ ~IsDigit(text[i]) THEN << >>
    ELSE <<text[i]>> \o Run(text, i + 1)

\* the blanks of text from i on are passed
RECURSIVE PastBlanks(_, _)
PastBlanks(text, i) ==
    IF i <= Len(text) /\ text[i] = " " THEN PastBlanks(text, i + 1) ELSE i

\* the n characters of text from i on, or as many as there are
Slice(text, i, n) ==
    IF i > Len(text) THEN << >>
    ELSE SubSeq(text, i, IF i + n - 1 > Len(text) THEN Len(text)
                         ELSE i + n - 1)

\* r"(\d+)\s*(?:yr|year)" with re.I matches at i
YearsAt(text, i) ==
    /\ Run(text, i) # << >>
    /\ LET k == PastBlanks(text, i + Len(Run(text, i)))
       IN  In(<<"Y", "R">>, Upper(Slice(text, k, 2)))
             \/ In(<<"Y", "E", "A", "R">>, Upper(Slice(text, k, 4)))

\* int(years_match.group(1)) if years_match else 1
TotalYears(text) ==
    IF \E i \in 1..Len(text) : YearsAt(text, i)
    THEN DigitsValue(Run(text, CHOOSE i \in 1..Len(text) :
                                   /\ YearsAt(text, i)
                                   /\ \A j \in 1..(i - 1) : ~YearsAt(text, j)))
    ELSE 1

\* no <a> in the cell
NoLink == <<"<", ">">>

\* the row once its cells are scanned: the header check, the name check,
\* and the dict
RowOutcome(texts, team_abbrev, player_name, scan) ==
    LET row_text == Upper(Join(texts))
        rec == [ player_name |-> player_name,
                 team_abbrev |-> team_abbrev,
                 current_cap_hit |-> scan.cap_hit,
                 current_salary |-> IF scan.salary # 0 THEN scan.salary
                                    ELSE scan.cap_hit,
                 aav |-> scan.cap_hit,
                 total_years |-> TotalYears(Join(texts)),
                 expiry_status |-> scan.expiry_status,
                 has_nmc |-> In(<<"N", "M", "C">>, row_text)
                               \/ In(<<"N", "O", "-", "M", "O", "V", "E">>,
                                     row_text),
                 has_ntc |-> In(<<"N", "T", "C">>, row_text)
                               \/ In(<<"N", "O", "-", "T", "R", "A", "D", "E">>,
                                     row_text),
                 source |-> "puckpedia" ]
    IN  IF \E h \in {<<"p", "l", "a", "y", "e", "r">>, <<"n", "a", "m", "e">>,
                     <<"p", "o", "s">>} : In(h, Lower(texts[1]))
        THEN [at |-> "none", exc |-> "none", rec |-> rec]
        ELSE IF Len(player_name) < 2
        THEN [at |-> "none", exc |-> "none", rec |-> rec]
        ELSE IF scan.exc # "none"
        THEN [at |-> "raised", exc |-> scan.exc, rec |-> rec]
        ELSE [at |-> "returned", exc |-> "none", rec |-> rec]

\* _parse_contract_row(cells, team_abbrev): cells[1] is the first cell, with
\* its stripped text and the stripped text of its link; texts are the
\* stripped texts of all cells.  The outcome is the dict, None, or the
\* exception that leaves.  (scraped_at, the time of the call, is left out.)
ParseContractRow(first, texts, team_abbrev) ==
    RowOutcome(texts, team_abbrev,
               IF first.link # NoLink THEN first.link ELSE texts[1],
               Scan(Tail(texts),
                    [cap_hit |-> 0, salary |-> 0, expiry_status |-> << >>,
                     exc |-> "none"]))

\* most cells of a row after the first
MaxCells == 3

\* the texts _parse_salary is given
SalaryTexts ==
    {
      <<"$", "1", ",", "5", "0", "0", ",", "0", "0", "0">>,
      <<"$", "1", ".", "5", "M">>, <<"$", "7", "5", "0", "K">>, << >>,
      <<"a", "b", "c">>, <<"$", "a", "b", "c">>, <<" ", "$", "1", "2", " ">>,
      <<"$", "1", ".", "5", "m">>, <<"$", "4", ".", "1", "M">>,
      <<"$", "3", "2", ".", "3", "K">>, <<"$", "i", "n", "f">>,
      <<"$", "I", "n", "f", "i", "n", "i", "t", "y", "M">>,
      <<"n", "a", "n">>, <<"-", "5">>, <<"1", "M", "5">>, <<"$", "K", "M">>,
      <<"$", "0">>, <<"$", "1", ".">>, <<"$", "1", ".", "5", ".", "2">> }

\* the first cells of the rows: a name, a name in a link after a number, a
\* header, a text too short for a name
FirstCells ==
    { [text |-> <<"A", "n", "n", " ", "L", "e", "e">>, link |-> NoLink],
      [text |-> <<"7", " ", "B", "e", "a", " ", "R", "o", "y">>,
       link |-> <<"B", "e", "a", " ", "R", "o", "y">>],
      [text |-> <<"P", "l", "a", "y", "e", "r">>, link |-> NoLink],
      [text |-> <<"A">>, link |-> NoLink] }

\* the texts of the other cells
CellTexts ==
    {
      <<"$", "1", ",", "5", "0", "0", ",", "0", "0", "0">>,
      <<"$", "1", ".", "5", "M">>, <<"$", "7", "5", "0", "K">>, <<"$", "0">>,
      <<"$", "i", "n", "f">>, <<"$", "4", ".", "1", "M">>, <<"U", "F", "A">>,
      <<"2", " ", "y", "r", " ", "N", "M", "C">>,
      <<"n", "o", "-", "t", "r", "a", "d", "e">> }

\* _parse_salary(text)
parse_salary ==
    /\ cal.op = "none"
    /\ \E text \in SalaryTexts :
          cal' = [op |-> "parse_salary", text |-> text]
                     @@ ParseSalary(text)
    /\ UNCHANGED <<dbvars, clientvars, drivervars, sweep, csv>>

\* _parse_contract_row(cells, team_abbrev), as scrape_team_contracts calls it
\* on the rows of at least 3 cells
parse_contract_row ==
    /\ cal.op = "none"
    /\ \E first \in FirstCells, n \in 2..MaxCells :
          \E rest \in [1..n -> CellTexts] :
             cal' = [op |-> "parse_contract_row", first |-> first,
                     texts |-> <<first.text>> \o rest]
                        @@ ParseContractRow(first, <<first.text>> \o rest,
                                            "TOR")
    /\ UNCHANGED <<dbvars, clientvars, drivervars, sweep, csv>>

NextRow ==
    \/ parse_salary
    \/ parse_contract_row

SpecRow == Init /\ [][NextRow]_vars

-----------------------------------------------------------------------------
(* PuckPedia: the claims *)

\* the amount a text of digits with at most one point stands for, times
\* factor, as a whole number
Amount(text, factor) ==
    LET f == Float(text)
        whole == (f.num * factor) \div Power10(f.scale)
    IN  IF f.neg THEN 0 - whole ELSE whole

\* text is a finite number in figures
Numeric(text) == Float(text).kind = "number"

\* the documented value of a dollar text: "$" and the thousands separators
\* are stripped; a trailing M multiplies the numeric remainder by 1,000,000
\* and a trailing K by 1,000; a plain number is itself; anything else is 0
Documented(text) ==
    LET t == Without(Without(StripText(text), "$"), ",")
        front == SubSeq(t, 1, Len(t) - 1)
        last == IF t = << >> THEN "" ELSE Upper(t)[Len(t)]
    IN  IF last = "M" /\ Numeric(front) THEN Amount(front, 1000000)
        ELSE IF last = "K" /\ Numeric(front) THEN Amount(front, 1000)
        ELSE IF Numeric(t) THEN Amount(t, 1)
        ELSE 0

\* C21: _parse_salary returns an integer for every text and never raises;
\* "$1,500,000" gives 1500000, "$1.5M" gives 1500000, "$750K" gives 750000;
\* a trailing M multiplies the numeric remainder by 1,000,000 and a trailing
\* K by 1,000; the empty text and every unparseable text give 0
C21_DollarParsingIsTotal ==
    cal.op = "parse_salary"
        => /\ cal.exc = "none"
           /\ cal.text = <<"$", "1", ",", "5", "0", "0", ",", "0", "0", "0">>
                 => cal.value = 1500000
           /\ cal.text = <<"$", "1", ".", "5", "M">> => cal.value = 1500000
           /\ cal.text = <<"$", "7", "5", "0", "K">> => cal.value = 750000
           /\ cal.text = << >> => cal.value = 0
           /\ cal.value = Documented(cal.text)

\* the cells after the first that bear a dollar sign, in order
DollarCells == SelectSeq(Tail(cal.texts), LAMBDA text : In(<<"$">>, text))

\* C27: in a parsed row the value of the first dollar cell after the first
\* cell is the cap hit and the value of the second dollar cell is the
\* salary, whatever the values are; with no second dollar cell the salary is
\* the cap hit; aav is the cap hit
C27_FirstDollarIsCapHit ==
    cal.op = "parse_contract_row" /\ cal.at = "returned"
        => /\ Len(DollarCells) >= 1 =>
                 cal.rec.current_cap_hit = ParseSalary(DollarCells[1]).value
           /\ Len(DollarCells) >= 2 =>
                 cal.rec.current_salary = ParseSalary(DollarCells[2]).value
           /\ Len(DollarCells) = 1 =>
                 cal.rec.current_salary = cal.rec.current_cap_hit
           /\ cal.rec.aav = cal.rec.current_cap_hit

-----------------------------------------------------------------------------
(* The league API: the details of a player *)

\* most entries of a season-by-season history
MaxHistory == 6

\* {}
Empty == << >>

\* the fields of the details taken from a sub-object:
\* data.get(key, {}).get(sub)
DetailNested ==
    [ first_name |-> <<"firstName", "default">>,
      last_name |-> <<"lastName", "default">>,
      birth_city |-> <<"birthCity", "default">>,
      birth_state |-> <<"birthStateProvince", "default">>,
      draft_year |-> <<"draftDetails", "year">>,
      draft_round |-> <<"draftDetails", "round">>,
      draft_pick |-> <<"draftDetails", "pickInRound">>,
      draft_overall |-> <<"draftDetails", "overallPick">>,
      draft_team |-> <<"draftDetails", "teamAbbrev">> ]

\* the fields taken as they are, each with its key and its default:
\* data.get(key, default)
DetailPlain ==
    [ birth_date |-> <<"birthDate", None>>,
      birth_country |-> <<"birthCountry", None>>,
      nationality |-> <<"nationality", None>>,
      height_inches |-> <<"heightInInches", None>>,
      weight_pounds |-> <<"weightInPounds", None>>,
      position |-> <<"position", None>>,
      shoots_catches |-> <<"shootsCatches", None>>,
      team_abbrev |-> <<"currentTeamAbbrev", None>>,
      team_id |-> <<"currentTeamId", None>>,
      jersey_number |-> <<"sweaterNumber", None>>,
      is_active |-> <<"isActive", "True">>,
      in_top_100 |-> <<"inTop100AllTime", "False">>,
      in_hhof |-> <<"inHHOF", "False">> ]

\* seq[:n]
FirstN(seq, n) == SubSeq(seq, 1, IF Len(seq) < n THEN Len(seq) ELSE n)

\* scrape_player_details(player_id) on the payload data of the landing page.
\* career_stats is in a set, empty for None, as it is a dict or None.
PlayerDetails(player_id, data) ==
    [f \in DOMAIN DetailNested |->
        Get(Get(data, DetailNested[f][1], Empty), DetailNested[f][2], None)]
      @@ [f \in DOMAIN DetailPlain |->
             Get(data, DetailPlain[f][1], DetailPlain[f][2])]
      @@ [ id |-> player_id,
           career_stats |-> IF "careerTotals" \in DOMAIN data
                            THEN {data.careerTotals} ELSE {},
           season_stats |-> FirstN(Get(data, "seasonTotals", << >>), 5),
           awards |-> Get(data, "awards", << >>) ]

\* a history of n seasons, the oldest or the most recent first
History(n, oldestFirst) ==
    [i \in 1..n |->
        [season |-> IF oldestFirst THEN 2010 + i ELSE 2010 + n + 1 - i,
         gamesPlayed |-> "82"]]

\* the payloads of the landing page
Landings ==
    { who @@ career @@ awards @@ history :
        who \in { Empty,
                  [ firstName |-> [default |-> "Ann"],
                    lastName |-> [default |-> "Lee"],
                    birthCity |-> [default |-> "Oslo", fr |-> "Oslo"],
                    birthCountry |-> "NOR", position |-> "C",
                    isActive |-> "False", sweaterNumber |-> "34",
                    draftDetails |-> [year |-> "2015", round |-> "1"] ] },
        career \in { Empty, [careerTotals |-> [gamesPlayed |-> "900"]] },
        awards \in { Empty, [awards |-> << >>],
                     [awards |-> <<[trophy |-> "Hart"]>>] },
        history \in { Empty }
            \cup { [seasonTotals |-> History(n, o)] :
                      n \in 0..MaxHistory, o \in BOOLEAN } }

\* scrape_player_details(player_id): one request, then the dict
player_details ==
    /\ cal.op = "none"
    /\ \E data \in Landings :
          cal' = [op |-> "player_details", data |-> data,
                  player |-> PlayerDetails("8478402", data)]
    /\ UNCHANGED <<dbvars, clientvars, drivervars, sweep, csv>>

NextDetails == player_details

SpecDetails == Init /\ [][NextDetails]_vars

\* the history the upstream sent
Upstream == Get(cal.data, "seasonTotals", << >>)

\* the entries of a history that are among its n most recent seasons
MostRecent(history, n) ==
    {e \in {history[i] : i \in 1..Len(history)} :
        Cardinality({d \in {history[i] : i \in 1..Len(history)} :
                        d.season > e.season}) < n}

\* C22: player_details returns a history of at most five entries; when the
\* upstream history has more, the five kept are its five most recent
\* seasons; the career totals and the award list are as received
C22_FiveMostRecentSeasons ==
    cal.op = "player_details"
        => /\ Len(cal.player.season_stats) <= 5
           /\ Len(Upstream) <= 5 => cal.player.season_stats = Upstream
           /\ Len(Upstream) > 5
                 => {cal.player.season_stats[i] : i \in 1..5}
                       = MostRecent(Upstream, 5)
           /\ "careerTotals" \in DOMAIN cal.data
                 => cal.player.career_stats = {cal.data.careerTotals}
           /\ "awards" \in DOMAIN cal.data
                 => cal.player.awards = cal.data.awards

-----------------------------------------------------------------------------
(* The roster models *)

\* most players of the forwards of a roster
MaxGroup == 2

\* Literal["C", "L", "R", "D", "G"]
Positions == {"C", "L", "R", "D", "G"}

\* RosterPlayer.is_goalie
is_goalie(player) == player.position = "G"

\* a forward is a centre only
is_forward_centre(player) == player.position = "C"

\* RosterPlayer.is_forward
is_forward(player) == player.position \in {"C", "L", "R"}

\* RosterPlayer.is_defenseman
is_defenseman(player) == player.position = "D"

\* TeamRoster.total_players
total_players(roster) ==
    Len(roster.forwards) + Len(roster.defensemen) + Len(roster.goalies)

\* a flat list without the goalies
all_skaters(roster) == roster.forwards \o roster.defensemen

\* TeamRoster.all_players
all_players(roster) == roster.forwards \o roster.defensemen \o roster.goalies

\* TeamRoster.get_player_by_id(player_id): the set of the player returned,
\* empty for None
get_player_by_id(roster, player_id) ==
    LET all == all_players(roster)
        hits == {i \in 1..Len(all) : all[i].player_id = player_id}
    IN  IF hits = {} THEN {}
        ELSE {all[CHOOSE i \in hits : \A j \in hits : i <= j]}

\* the players of the rosters; a group is not checked against the positions
\* of its players
RosterPlayers ==
    { [player_id |-> 1, first_name |-> "A", position |-> "C"],
      [player_id |-> 1, first_name |-> "B", position |-> "D"],
      [player_id |-> 2, first_name |-> "C", position |-> "G"],
      [player_id |-> 2, first_name |-> "D", position |-> "L"] }

\* the rosters
TeamRosters ==
    [ forwards : UNION {[1..n -> RosterPlayers] : n \in 0..MaxGroup},
      defensemen : UNION {[1..n -> RosterPlayers] : n \in 0..1},
      goalies : UNION {[1..n -> RosterPlayers] : n \in 0..1} ]

\* a RosterPlayer is made and its three properties are read
roster_player ==
    /\ cal.op = "none"
    /\ \E position \in Positions, player_id \in 1..2 :
          LET player == [player_id |-> player_id, first_name |-> "A",
                         position |-> position]
          IN  cal' = [op |-> "RosterPlayer", player |-> player,
                      is_forward |-> is_forward(player),
                      is_defenseman |-> is_defenseman(player),
                      is_goalie |-> is_goalie(player)]
    /\ UNCHANGED <<dbvars, clientvars, drivervars, sweep, csv>>

\* a TeamRoster is made; total_players, all_players and get_player_by_id
\* are read
team_roster ==
    /\ cal.op = "none"
    /\ \E roster \in TeamRosters, player_id \in 1..3 :
          cal' = [op |-> "TeamRoster", roster |-> roster,
                  player_id |-> player_id,
                  total_players |-> total_players(roster),
                  all_players |-> all_players(roster),
                  found |-> get_player_by_id(roster, player_id)]
    /\ UNCHANGED <<dbvars, clientvars, drivervars, sweep, csv>>

NextRoster ==
    \/ roster_player
    \/ team_roster

SpecRoster == Init /\ [][NextRoster]_vars

\* how many of the three properties hold
Holding ==
    Cardinality({p \in {"is_forward", "is_defenseman", "is_goalie"} : cal[p]})

\* C23: for every position in {C, L, R, D, G} exactly one of is_forward,
\* is_defenseman, is_goalie holds: is_forward iff the position is C, L or R,
\* is_defenseman iff it is D, is_goalie iff it is G
C23_ExactlyOneRole ==
    cal.op = "RosterPlayer"
        => /\ Holding = 1
           /\ cal.is_forward <=> cal.player.position \in {"C", "L", "R"}
           /\ cal.is_defenseman <=> cal.player.position = "D"
           /\ cal.is_goalie <=> cal.player.position = "G"

C23_Witness ==
    cal.op = "RosterPlayer" /\ cal.player.position = "L" /\ cal.is_forward

\* the first player of a group with the id, in a set; empty when none
FirstOf(group, id) ==
    IF \E i \in 1..Len(group) : group[i].player_id = id
    THEN {group[CHOOSE i \in 1..Len(group) :
                   /\ group[i].player_id = id
                   /\ \A j \in 1..(i - 1) : group[j].player_id # id]}
    ELSE {}

\* C24: get_player_by_id returns the first player with the id in the order
\* forwards, defensemen, goalies, and None when no player has it;
\* total_players is the length of all_players, the sum of the lengths of the
\* three groups
C24_FirstPlayerWithId ==
    cal.op = "TeamRoster"
        => LET F == FirstOf(cal.roster.forwards, cal.player_id)
               D == FirstOf(cal.roster.defensemen, cal.player_id)
               G == FirstOf(cal.roster.goalies, cal.player_id)
           IN  /\ cal.found = IF F # {} THEN F ELSE IF D # {} THEN D ELSE G
               /\ \A p \in cal.found : p.player_id = cal.player_id
               /\ cal.total_players = Len(cal.all_players)
               /\ cal.total_players
                     = Len(cal.roster.forwards) + Len(cal.roster.defensemen)
                         + Len(cal.roster.goalies)

\* the id is both among the defensemen and the goalies, not the forwards,
\* and the defenseman is returned
C24_Witness ==
    /\ cal.op = "TeamRoster"
    /\ FirstOf(cal.roster.forwards, cal.player_id) = {}
    /\ cal.roster.forwards # << >>
    /\ FirstOf(cal.roster.defensemen, cal.player_id) # {}
    /\ FirstOf(cal.roster.goalies, cal.player_id) # {}
    /\ cal.found = FirstOf(cal.roster.defensemen, cal.player_id)
    /\ cal.found # FirstOf(cal.roster.goalies, cal.player_id)

-----------------------------------------------------------------------------
(* The league API: the paginated statistics *)

\* most requests of one sweep: the upstream answers the last of them with a
\* short page
MaxPages == 3

\* `limit = 100`
PageLimit == 100

\* the fields of a skater entry, each with its key and its default
SkaterStatMap ==
    [ player_id |-> <<"playerId", None>>,
      player_name |-> <<"skaterFullName", None>>,
      team_abbrev |-> <<"teamAbbrevs", None>>,
      position |-> <<"positionCode", None>>,
      games_played |-> <<"gamesPlayed", "0">>, goals |-> <<"goals", "0">>,
      assists |-> <<"assists", "0">>, points |-> <<"points", "0">>,
      plus_minus |-> <<"plusMinus", "0">>, pim |-> <<"penaltyMinutes", "0">>,
      ppg |-> <<"ppGoals", "0">>, ppp |-> <<"ppPoints", "0">>,
      shg |-> <<"shGoals", "0">>, shp |-> <<"shPoints", "0">>,
      gwg |-> <<"gameWinningGoals", "0">>, otg |-> <<"otGoals", "0">>,
      shots |-> <<"shots", "0">>, shot_pct |-> <<"shootingPct", None>>,
      toi_per_game |-> <<"timeOnIcePerGame", None>>,
      faceoff_pct |-> <<"faceoffWinPct", None>> ]

\* the fields of a goalie entry
GoalieStatMap ==
    [ player_id |-> <<"playerId", None>>,
      player_name |-> <<"goalieFullName", None>>,
      team_abbrev |-> <<"teamAbbrevs", None>>,
      games_played |-> <<"gamesPlayed", "0">>,
      games_started |-> <<"gamesStarted", "0">>, wins |-> <<"wins", "0">>,
      losses |-> <<"losses", "0">>, ot_losses |-> <<"otLosses", "0">>,
      shutouts |-> <<"shutouts", "0">>,
      shots_against |-> <<"shotsAgainst", "0">>,
      goals_against |-> <<"goalsAgainst", "0">>, saves |-> <<"saves", "0">>,
      save_pct |-> <<"savePct", None>>,
      gaa |-> <<"goalsAgainstAverage", None>>,
      toi_seconds |-> <<"timeOnIce", None>> ]

StatMap(kind) ==
    IF kind = "all_skater_stats" THEN SkaterStatMap ELSE GoalieStatMap

\* the dict appended for the entry p of a page
Mapped(kind, season, p) ==
    [f \in DOMAIN StatMap(kind) |->
        Get(p, StatMap(kind)[f][1], StatMap(kind)[f][2])]
      @@ [season |-> season]

\* the entries of a page, mapped, in the order of the page
MappedPage(kind, season, batch) ==
    [i \in 1..Len(batch) |-> Mapped(kind, season, batch[i])]

\* entry i of the page the upstream serves at offset start: the entry of
\* rank start + i
Entry(kind, start, i) ==
    IF kind = "all_skater_stats"
    THEN [playerId |-> Decimal(start + i), skaterFullName |-> "Ann",
          positionCode |-> "C", points |-> "9"]
    ELSE [playerId |-> Decimal(start + i), goalieFullName |-> "Bea",
          wins |-> "9"]

\* the page of n entries served at offset start
Page(kind, start, n) == [i \in 1..n |-> Entry(kind, start, i)]

\* the lengths of the pages the upstream serves: none, short, full, and
\* more than was asked for
Lengths == {0, 1, PageLimit - 1, PageLimit, PageLimit + 1}

\* a page that never ends the sweep
ExhaustedNever(batch, limit) == FALSE

\* `if len(batch) < limit: break`
Exhausted(batch, limit) == Len(batch) < limit

\* scrape_all_skater_stats(season) / scrape_all_goalie_stats(season) up to
\* the loop: the season is the current one when none is given
all_stats_call ==
    /\ sweep.op = "none"
    /\ \E kind \in {"all_skater_stats", "all_goalie_stats"},
          season \in {None, "20232024"} :
          sweep' = [op |-> kind,
                    season |-> IF season = None
                               THEN NhlCurrentSeason(CHOOSE d \in Days : TRUE)
                               ELSE season,
                    start |-> 0, limit |-> PageLimit, requested |-> << >>,
                    served |-> << >>, players |-> << >>, at |-> "running"]
    /\ UNCHANGED <<dbvars, clientvars, drivervars, csv, cal>>

\* one turn of `while True:`: the request at the offset, then the page.  The
\* response raises (raise_for_status), or has no "data", or has a page of n
\* entries; the last request the upstream answers is answered with a short
\* page.
all_stats_page ==
    /\ sweep.op \in {"all_skater_stats", "all_goalie_stats"}
    /\ sweep.at = "running"
    /\ LET asked == [sweep EXCEPT
                       !.requested = Append(@, [start |-> sweep.start,
                                                limit |-> sweep.limit])]
       IN  \/ sweep' = [asked EXCEPT !.at = "raised", !.players = << >>]
           \/ sweep' = [asked EXCEPT !.at = "returned",
                                     !.served = Append(@, 0)]
           \/ \E n \in Lengths :
                 /\ Len(asked.requested) = MaxPages => n < sweep.limit
                 /\ LET batch == Page(sweep.op, sweep.start, n)
                        got == [asked EXCEPT
                                  !.served = Append(@, n),
                                  !.players =
                                     @ \o MappedPage(sweep.op, sweep.season,
                                                     batch)]
                    IN  sweep' =
                          IF batch = << >>
                          THEN [asked EXCEPT !.at = "returned",
                                             !.served = Append(@, 0)]
                          ELSE IF Exhausted(batch, sweep.limit)
                          THEN [got EXCEPT !.at = "returned"]
                          ELSE [got EXCEPT !.start = @ + sweep.limit]
    /\ UNCHANGED <<dbvars, clientvars, drivervars, csv, cal>>

NextPages ==
    \/ all_stats_call
    \/ all_stats_page

SpecPages == Init /\ [][NextPages]_vars /\ WF_vars(NextPages)

\* a paginated sweep has been called
Paging == sweep.op \in {"all_skater_stats", "all_goalie_stats"}

\* the mapped entries of the pages served up to the n-th, in request order
RECURSIVE MappedUpTo(_)
MappedUpTo(n) ==
    IF n = 0 THEN << >>
    ELSE MappedUpTo(n - 1)
           \o MappedPage(sweep.op, sweep.season,
                         Page(sweep.op, sweep.requested[n].start,
                              sweep.served[n]))

\* what holds of a sweep at every moment
PagesInOrder ==
    Paging =>
        /\ \A i \in 1..Len(sweep.requested) :
              /\ sweep.requested[i].start = (i - 1) * 100
              /\ sweep.requested[i].limit = 100
        /\ \A i \in 1..Len(sweep.served) :
              sweep.served[i] < 100
                  => i = Len(sweep.requested) /\ sweep.at = "returned"
        /\ sweep.at = "returned"
              => /\ Len(sweep.served) = Len(sweep.requested)
                 /\ sweep.served[Len(sweep.served)] < 100
                 /\ sweep.players = MappedUpTo(Len(sweep.served))

\* C25: all_skater_stats and all_goalie_stats request the offsets 0, 100,
\* 200, ... in increasing order with page size 100, send no request after
\* the first page of fewer than 100 entries, return the mapped entries of
\* every page in request order, and end when the upstream serves a short page
C25_PagesUntilShort ==
    /\ [](PagesInOrder)
    /\ (Paging /\ sweep.at = "running") ~> (Paging /\ sweep.at # "running")

C25_Witness ==
    /\ Paging /\ sweep.at = "returned"
    /\ sweep.served = <<100, 101, 99>>
    /\ Len(sweep.players) = 300

=============================================================================
